---------------------------- MODULE Spec2Model ----------------------------
(***************************************************************************)
(* A model of the analysis pipeline of AI-Impact UK (backend/main.py,       *)
(* backend/llm.py): the legacy rule engine, the generative flag client,     *)
(* the reconciliation of both flag sources, the synthesis of green flags    *)
(* and the loading of the policy corpus.                                    *)
(*                                                                         *)
(* Python values are tagged records ([t |-> "none"], [t |-> "bool", ...]),  *)
(* Python strings are sequences of one-character strings, so that strip(),  *)
(* lower(), startswith() and `in` are computed and not assumed.             *)
(***************************************************************************)
EXTENDS Integers, Sequences, FiniteSets, TLC

VARIABLES
    er_rule,        \* evaluate_rule harness: the rule under evaluation
    er_payload,     \* evaluate_rule harness: the project facts (payload dict)
    er_result,      \* evaluate_rule harness: "pending", "true", "false", "raise"
    POLICY,         \* main.POLICY: the loaded clauses
    POLICY_VERSION, \* main.POLICY_VERSION: hash of the loaded corpus text
    vectorizer,     \* main._vectorizer: None or fitted on a clause list
    matrix,         \* main._matrix: None or the TF-IDF rows of a clause list
    RULES,          \* main.RULES: the entries loaded from rules.yaml
    USE_LLM,        \* main.USE_LLM: whether the generative client is used
    payload,        \* analyse: the request's ProjectInput
    sim_profile,    \* the similarity scores the vector space yields for the query
    pc,             \* analyse: position of the request
    hits,           \* analyse: retrieved SearchHits
    gen,            \* generate_flags: arguments of the pending call
    calls,          \* inference calls issued so far, with their outcome
    llm_out,        \* analyse: llm_out["flags"]
    model_flags,    \* analyse: surviving generative flags
    rule_i,         \* analyse: index of the next rule of the rule loop
    legacy_flags,   \* analyse: fired rule flags
    all_flags,      \* analyse: the merged (or synthesized) flag list
    response,       \* analyse: the AnalysisOut returned, or the escaped error
    ld_pc,          \* load_policy_corpus: position of the running load
    ld_rows,        \* load_policy_corpus: the rows parsed from policy_corpus.json
    rd_pc,          \* a concurrent request: its position
    rd_kind,        \* a concurrent request: "search", "analyse" or "clauses"
    rd_seen,        \* a concurrent request: the corpus globals it has read
    tape,           \* the inference service: its answers to successive calls
    run,            \* repeated request: 1 for the first run, 2 for the second
    first_run,      \* repeated request: what the first run returned
    other,          \* what another request, served meanwhile, returned
    h_in,           \* function harness: the arguments of the call
    h_out           \* function harness: the result of the call

ruleVars   == <<er_rule, er_payload, er_result>>
corpusVars == <<POLICY, POLICY_VERSION, vectorizer, matrix>>
reqVars    == <<RULES, USE_LLM, payload, sim_profile, pc, hits, gen, calls,
                llm_out, model_flags, rule_i, legacy_flags, all_flags, response>>

reloadVars == <<ld_pc, ld_rows, rd_pc, rd_kind, rd_seen>>
auxVars == <<tape, run, first_run, other, h_in, h_out>>
vars == <<ruleVars, corpusVars, reqVars, reloadVars, auxVars>>

-----------------------------------------------------------------------------
(* Python strings *)

UpperChars == <<"A","B","C","D","E","F","G","H","I","J","K","L","M",
                "N","O","P","Q","R","S","T","U","V","W","X","Y","Z">>
LowerChars == <<"a","b","c","d","e","f","g","h","i","j","k","l","m",
                "n","o","p","q","r","s","t","u","v","w","x","y","z">>

\* str.lower() on one character
LowerChar(c) ==
    IF \E i \in 1..26 : UpperChars[i] = c
    THEN LowerChars[CHOOSE i \in 1..26 : UpperChars[i] = c]
    ELSE c

\* str.lower()
Lower(s) == [i \in 1..Len(s) |-> LowerChar(s[i])]

IsSpace(c) == c = " "

\* str.strip(): drop leading and trailing whitespace
Strip(s) ==
    LET Ink == {i \in 1..Len(s) : ~IsSpace(s[i])}
    IN  IF Ink = {} THEN <<>>
        ELSE LET lo == CHOOSE i \in Ink : \A j \in Ink : i <= j
                 hi == CHOOSE i \in Ink : \A j \in Ink : j <= i
             IN  SubSeq(s, lo, hi)

\* the normal form used all over main.py: s.strip().lower()
Norm(s) == Lower(Strip(s))

\* str.startswith
StartsWith(s, p) == Len(s) >= Len(p) /\ SubSeq(s, 1, Len(p)) = p

\* `a in b` for two strings: substring test
IsSubstr(a, b) ==
    \E i \in 0..(Len(b) - Len(a)) : SubSeq(b, i + 1, i + Len(a)) = a

-----------------------------------------------------------------------------
(* Python values *)

NoneV     == [t |-> "none"]
BoolV(b)  == [t |-> "bool", b |-> b]
StrV(s)   == [t |-> "str", s |-> s]
NumV(n)   == [t |-> "num", n |-> n]
NanV      == [t |-> "nan"]
ListV(l)  == [t |-> "list", l |-> l]
DictV(d)  == [t |-> "dict", d |-> d]

TrueV  == BoolV(TRUE)
FalseV == BoolV(FALSE)
EmptyDict == [k \in {} |-> NoneV]

IsStr(v)  == v.t = "str"
IsBool(v) == v.t = "bool"
IsList(v) == v.t = "list"

\* bool(v)
Truthy(v) ==
    CASE v.t = "none" -> FALSE
      [] v.t = "bool" -> v.b
      [] v.t = "str"  -> Len(v.s) > 0
      [] v.t = "num"  -> v.n # 0
      [] v.t = "nan"  -> TRUE
      [] v.t = "list" -> Len(v.l) > 0
      [] v.t = "dict" -> DOMAIN v.d # {}

\* a == b
PyEq(a, b) ==
    CASE a.t = "bool" /\ b.t = "bool" -> a.b = b.b
      [] a.t = "bool" /\ b.t = "num"  -> (IF a.b THEN 1 ELSE 0) = b.n
      [] a.t = "num"  /\ b.t = "bool" -> a.n = (IF b.b THEN 1 ELSE 0)
      [] a.t = "num"  /\ b.t = "num"  -> a.n = b.n
      [] a.t = "str"  /\ b.t = "str"  -> a.s = b.s
      [] a.t = "none" /\ b.t = "none" -> TRUE
      [] a.t = "list" /\ b.t = "list" -> a.l = b.l
      [] a.t = "dict" /\ b.t = "dict" -> a.d = b.d
      [] OTHER -> FALSE

\* a is b, for b a bool singleton
IsSame(a, b) == a.t = "bool" /\ b.t = "bool" /\ a.b = b.b

Digits == <<"0", "1", "2", "3", "4", "5", "6", "7", "8", "9">>

\* str(v) for the values that need it
PyStr(v) ==
    CASE v.t = "str"  -> v.s
      [] v.t = "none" -> <<"N","o","n","e">>
      [] v.t = "bool" -> IF v.b THEN <<"T","r","u","e">> ELSE <<"F","a","l","s","e">>
      [] v.t = "num"  -> IF v.n \in 0..9 THEN <<Digits[v.n + 1]>> ELSE <<"#">>
      [] v.t = "nan"  -> <<"n","a","n">>
      [] OTHER        -> <<"[","]">>

\* d.get(k) and d.get(k, default) on a mapping held as a TLA+ function
Get(d, k) == IF k \in DOMAIN d THEN d[k] ELSE NoneV
GetOr(d, k, dflt) == IF k \in DOMAIN d THEN d[k] ELSE dflt

\* `x or dflt`
Or(x, dflt) == IF Truthy(x) THEN x ELSE dflt

_ci_equals(a, b) == IsStr(a) /\ IsStr(b) /\ Norm(a.s) = Norm(b.s)


-----------------------------------------------------------------------------
(* Rule engine: evaluate_rule (main.py) *)

sEmpty == <<>>
sNone  == <<"N","o","n","e">>
sNoneL == <<"n","o","n","e">>

\* (payload.get(k) or "") for a field the schema types as Optional[str]
StrField(p, k) == LET v == Get(p, k) IN IF IsStr(v) THEN v.s ELSE sEmpty

\* (payload.get(k) or []) for a field the schema types as Optional[List[str]]
ListField(p, k) == LET v == Get(p, k) IN IF IsList(v) THEN v.l ELSE <<>>

\* payload.get(k) is True / is False
IsTrue(p, k)  == IsSame(Get(p, k), TrueV)
IsFalse(p, k) == IsSame(Get(p, k), FalseV)

Elems(l) == {l[i] : i \in 1..Len(l)}

\* the items a Python `for x in v` visits, None when v is not iterable
\* (dict keys are rule-file identifiers, held apart from fact strings)
Iterable(v) == v.t \in {"list", "str", "dict"}
IterItems(v) ==
    CASE v.t = "list" -> Elems(v.l)
      [] v.t = "str"  -> {StrV(<<v.s[i]>>) : i \in 1..Len(v.s)}
      [] OTHER        -> {}

Outcome(cond) == IF cond THEN "pass" ELSE "false"

\* main.py 89-95
CheckDescriptionMinLength(trig, p) ==
    IF "description_min_length" \notin DOMAIN trig THEN "skip"
    ELSE LET min_len == trig["description_min_length"]
             n == Len(StrField(p, "description"))
         IN  CASE min_len.t = "num"  -> Outcome(n < min_len.n)
               [] min_len.t = "bool" -> Outcome(n < (IF min_len.b THEN 1 ELSE 0))
               [] min_len.t = "nan"  -> "false"
               [] OTHER              -> "raise"

\* main.py 97-102
CheckTitleMissing(trig, p) ==
    IF ~Truthy(Get(trig, "title_missing")) THEN "skip"
    ELSE Outcome(Strip(StrField(p, "title")) = sEmpty)

\* main.py 104-115
CheckModelType(trig, p) ==
    IF "model_type" \notin DOMAIN trig THEN "skip"
    ELSE LET expected == trig["model_type"]
             actual == StrV(StrField(p, "model_type"))
         IN  IF IsList(expected)
             THEN Outcome(\E e \in Elems(expected.l) : _ci_equals(e, actual))
             ELSE Outcome(_ci_equals(expected, actual))

\* main.py 117-129
CheckDataTypes(trig, p) ==
    IF "data_types" \notin DOMAIN trig THEN "skip"
    ELSE LET expected == trig["data_types"]
             actual == ListField(p, "data_types")
         IN  IF PyEq(expected, ListV(<<>>))
             THEN Outcome(actual = <<>>)
             ELSE IF ~Iterable(expected) THEN "raise"
             ELSE Outcome(\E dt \in IterItems(expected) :
                             \E a \in Elems(actual) : PyEq(dt, a))

\* main.py 131-135
CheckSpecialCategoryData(trig, p) ==
    IF ~Truthy(Get(trig, "special_category_data")) THEN "skip"
    ELSE Outcome(IsTrue(p, "special_category_data"))

\* main.py 137-141
CheckProcessesPersonalData(trig, p) ==
    IF ~Truthy(Get(trig, "processes_personal_data")) THEN "skip"
    ELSE Outcome(IsTrue(p, "processes_personal_data"))

\* main.py 143-148
CheckPrivacyTechniques(trig, p) ==
    IF "privacy_techniques" \notin DOMAIN trig THEN "skip"
    ELSE LET actual == ListField(p, "privacy_techniques")
         IN  Outcome(actual = <<>>
                     \/ \E x \in Elems(actual) : _ci_equals(x, StrV(sNone)))

\* main.py 150-155, 170-175, 198-203: a string field that must be blank
CheckBlankString(trig, p, key, field) ==
    IF ~Truthy(Get(trig, key)) THEN "skip"
    ELSE Outcome(Strip(StrField(p, field)) = sEmpty)

\* main.py 157-162
CheckInterpretabilityNotRated(trig, p) ==
    IF ~Truthy(Get(trig, "interpretability_not_rated")) THEN "skip"
    ELSE LET rating == Get(p, "interpretability_rating")
         IN  Outcome(rating.t = "none"
                     \/ (IsStr(rating) /\ Strip(rating.s) = sEmpty))

\* main.py 164-168
CheckFairnessDefinitionMissing(trig, p) ==
    IF ~Truthy(Get(trig, "fairness_definition_missing")) THEN "skip"
    ELSE Outcome(~Truthy(Get(p, "fairness_definition")))

\* main.py 177-183
CheckModelCardsPublished(trig, p) ==
    IF "model_cards_published" \notin DOMAIN trig THEN "skip"
    ELSE Outcome(IsSame(Get(p, "model_cards_published"),
                        trig["model_cards_published"]))

\* main.py 185-190
CheckCredibleHarmsListed(trig, p) ==
    IF ~Truthy(Get(trig, "credible_harms_listed")) THEN "skip"
    ELSE Outcome(Len(ListField(p, "credible_harms")) > 0)

\* main.py 192-196
CheckSafetyMitigations(trig, p) ==
    IF "safety_mitigations" \notin DOMAIN trig THEN "skip"
    ELSE Outcome(ListField(p, "safety_mitigations") = <<>>)

\* main.py 205-211
CheckRetrainingCadence(trig, p) ==
    IF "retraining_cadence" \notin DOMAIN trig THEN "skip"
    ELSE LET expected == trig["retraining_cadence"]
             actual == StrField(p, "retraining_cadence")
         IN  CASE expected.t = "str"  -> Outcome(IsSubstr(actual, expected.s))
               [] expected.t = "list" ->
                    Outcome(\E e \in Elems(expected.l) : PyEq(e, StrV(actual)))
               [] expected.t = "dict" -> "false"
               [] OTHER               -> "raise"

\* main.py 213-242: a gate that needs the fact to be the literal `want`
CheckFactIs(trig, p, key, field, want) ==
    IF ~Truthy(Get(trig, key)) THEN "skip"
    ELSE Outcome(IsSame(Get(p, field), BoolV(want)))

\* main.py 244-249
CheckSustainabilityEstimateMissing(trig, p) ==
    IF ~Truthy(Get(trig, "sustainability_estimate_missing")) THEN "skip"
    ELSE Outcome(Strip(StrField(p, "sustainability_estimate")) = sEmpty)

\* main.py 251-260
CheckExplainabilityChannelsMissing(trig, p) ==
    IF ~Truthy(Get(trig, "explainability_channels_missing")) THEN "skip"
    ELSE LET ch == ListField(p, "explainability_channels")
             has == {c \in Elems(ch) : Norm(PyStr(c)) \notin {sNoneL, sEmpty}}
         IN  Outcome(has = {})

\* main.py 262-268
CheckDocumentationConsumersIncludes(trig, p) ==
    IF "documentation_consumers_includes" \notin DOMAIN trig THEN "skip"
    ELSE LET want == trig["documentation_consumers_includes"]
             expected == {Norm(PyStr(x)) : x \in IterItems(want)}
             got == {Norm(PyStr(x)) : x \in Elems(ListField(p, "documentation_consumers"))}
         IN  IF ~Iterable(want) THEN "raise"
             ELSE Outcome(expected \cap got = {})

\* main.py 270-274
CheckCommunityReviewsMissing(trig, p) ==
    IF ~Truthy(Get(trig, "community_reviews_missing_for_personal_data")) THEN "skip"
    ELSE Outcome(IsTrue(p, "processes_personal_data")
                 /\ IsFalse(p, "community_reviews"))

\* main.py 277-288, in the order of the explicit checks
handled_keys ==
    << "description_min_length", "title_missing", "model_type", "data_types",
       "special_category_data", "processes_personal_data", "privacy_techniques",
       "explainability_tooling_missing", "interpretability_not_rated",
       "fairness_definition_missing", "accountable_owner_missing",
       "model_cards_published", "credible_harms_listed", "safety_mitigations",
       "drift_detection_missing", "retraining_cadence", "pen_test_missing",
       "domain_threshold_not_met", "robustness_below_baseline",
       "genai_risk_above_baseline", "retention_not_defined",
       "sustainability_estimate_missing", "explainability_channels_missing",
       "documentation_consumers_includes",
       "community_reviews_missing_for_personal_data" >>

HandledKeySet == Elems(handled_keys)

\* the explicit check of one handled key (main.py 89-274)
ExplicitCheck(k, trig, p) ==
    CASE k = "description_min_length" -> CheckDescriptionMinLength(trig, p)
      [] k = "title_missing" -> CheckTitleMissing(trig, p)
      [] k = "model_type" -> CheckModelType(trig, p)
      [] k = "data_types" -> CheckDataTypes(trig, p)
      [] k = "special_category_data" -> CheckSpecialCategoryData(trig, p)
      [] k = "processes_personal_data" -> CheckProcessesPersonalData(trig, p)
      [] k = "privacy_techniques" -> CheckPrivacyTechniques(trig, p)
      [] k = "explainability_tooling_missing" ->
            CheckBlankString(trig, p, k, "explainability_tooling")
      [] k = "interpretability_not_rated" -> CheckInterpretabilityNotRated(trig, p)
      [] k = "fairness_definition_missing" -> CheckFairnessDefinitionMissing(trig, p)
      [] k = "accountable_owner_missing" ->
            CheckBlankString(trig, p, k, "accountable_owner")
      [] k = "model_cards_published" -> CheckModelCardsPublished(trig, p)
      [] k = "credible_harms_listed" -> CheckCredibleHarmsListed(trig, p)
      [] k = "safety_mitigations" -> CheckSafetyMitigations(trig, p)
      [] k = "drift_detection_missing" ->
            CheckBlankString(trig, p, k, "drift_detection")
      [] k = "retraining_cadence" -> CheckRetrainingCadence(trig, p)
      [] k = "pen_test_missing" ->
            CheckFactIs(trig, p, k, "penetration_tested", FALSE)
      [] k = "domain_threshold_not_met" ->
            CheckFactIs(trig, p, k, "domain_threshold_met", FALSE)
      [] k = "robustness_below_baseline" ->
            CheckFactIs(trig, p, k, "robustness_above_baseline", FALSE)
      [] k = "genai_risk_above_baseline" ->
            CheckFactIs(trig, p, k, "generative_risk_above_baseline", TRUE)
      [] k = "retention_not_defined" ->
            CheckFactIs(trig, p, k, "retention_defined", FALSE)
      [] k = "sustainability_estimate_missing" ->
            CheckSustainabilityEstimateMissing(trig, p)
      [] k = "explainability_channels_missing" ->
            CheckExplainabilityChannelsMissing(trig, p)
      [] k = "documentation_consumers_includes" ->
            CheckDocumentationConsumersIncludes(trig, p)
      [] k = "community_reviews_missing_for_personal_data" ->
            CheckCommunityReviewsMissing(trig, p)

\* main.py 290-291
_empty(x) ==
    \/ x.t = "none"
    \/ (IsStr(x) /\ Strip(x.s) = sEmpty)
    \/ (IsList(x) /\ Len(x.l) = 0)
    \/ (x.t = "dict" /\ DOMAIN x.d = {})

\* main.py 293-339: the generic matcher on one key that is not handled
GenericCheck(k, trig, p) ==
    LET expected == trig[k]
        actual == Get(p, k)
    IN  CASE IsList(expected) /\ Len(expected.l) = 0 -> Outcome(_empty(actual))
          [] IsList(expected) /\ Len(expected.l) > 0 ->
                IF IsList(actual)
                THEN Outcome({Norm(PyStr(x)) : x \in Elems(actual.l)}
                             \cap {Norm(PyStr(x)) : x \in Elems(expected.l)} # {})
                ELSE Outcome(\E e \in Elems(expected.l) : _ci_equals(actual, e))
          [] IsBool(expected) -> Outcome(IsSame(actual, expected))
          [] expected.t \in {"str", "num", "nan"} ->
                IF IsStr(expected) /\ IsStr(actual)
                THEN Outcome(_ci_equals(actual, expected))
                ELSE Outcome(PyEq(actual, expected))
          [] OTHER -> "skip"

\* what evaluate_rule does with one key of the trigger block
KeyOutcome(k, trig, p) ==
    IF k \in HandledKeySet THEN ExplicitCheck(k, trig, p) ELSE GenericCheck(k, trig, p)

\* main.py 78-341: "true", "false" or "raise"
EvaluateTrigger(trig, p) ==
    LET N == Len(handled_keys)
        out(i) == ExplicitCheck(handled_keys[i], trig, p)
        Stops == {i \in 1..N : out(i) \in {"false", "raise"}}
        generic == {k \in DOMAIN trig : k \notin HandledKeySet}
    IN  IF Stops # {}
        THEN out(CHOOSE i \in Stops : \A j \in Stops : i <= j)
        ELSE IF \E k \in generic : GenericCheck(k, trig, p) = "false" THEN "false"
        ELSE IF \/ \E i \in 1..N : out(i) = "pass"
                \/ \E k \in generic : GenericCheck(k, trig, p) = "pass"
             THEN "true" ELSE "false"

\* rule.get("trigger", {}) or {} (main.py 85), then the checks
evaluate_rule(rule, p) ==
    IF rule.t # "dict" THEN "raise"
    ELSE LET tv == Get(rule.d, "trigger")
         IN  IF ~Truthy(tv) THEN EvaluateTrigger(EmptyDict, p)
             ELSE IF tv.t # "dict" THEN "raise"
             ELSE EvaluateTrigger(tv.d, p)

-----------------------------------------------------------------------------
(* Inputs of the rule engine: rules as rules.yaml can hold them, project      *)
(* facts as ProjectInput.model_dump() yields them.                            *)

sT     == <<"T">>
sBlank == <<" ">>
sGpt   == <<"g","p","t">>
sGptU  == <<" ","G","P","T">>
sTree  == <<"t","r","e","e">>
sRed   == <<"r","e","d">>
sAmber == <<"A","m","b","e","r">>
sC1    == <<"c","1">>
sR1    == <<"R","1">>
sTitleMissing == <<"t","i","t","l","e"," ","i","s"," ","m","i","s","s","i","n","g">>

\* one rule of rules.yaml: a mapping
MkRule(id, trig, clause, severity, reason) ==
    DictV("id" :> StrV(id) @@ "trigger" :> DictV(trig) @@ "clause" :> StrV(clause)
          @@ "severity" :> StrV(severity) @@ "reason" :> StrV(reason))

RuleOf(trig) == MkRule(sR1, trig, sC1, sRed, sTitleMissing)

\* trigger keys that gate on a boolean carried by the trigger itself
ValueGateKeys == {"special_category_data", "processes_personal_data",
                  "model_cards_published", "significant_decision"}

\* trigger keys that are switches: when on, the named fact must be the literal
FlagGateField(k) ==
    CASE k = "pen_test_missing" -> "penetration_tested"
      [] k = "domain_threshold_not_met" -> "domain_threshold_met"
      [] k = "robustness_below_baseline" -> "robustness_above_baseline"
      [] k = "genai_risk_above_baseline" -> "generative_risk_above_baseline"
      [] k = "retention_not_defined" -> "retention_defined"
      [] k = "community_reviews_missing_for_personal_data" -> "community_reviews"
FlagGateWant(k) == k = "genai_risk_above_baseline"
FlagGateKeys == {"pen_test_missing", "domain_threshold_not_met",
                 "robustness_below_baseline", "genai_risk_above_baseline",
                 "retention_not_defined",
                 "community_reviews_missing_for_personal_data"}

\* the fact a gate key reads
GateField(k) == IF k \in ValueGateKeys THEN k ELSE FlagGateField(k)

GateTriggers ==
    {k :> BoolV(b) : k \in ValueGateKeys \cup FlagGateKeys, b \in BOOLEAN}
    \cup {k :> BoolV(b) @@ "title_missing" :> TrueV : k \in ValueGateKeys, b \in BOOLEAN}

OtherTriggers ==
    { EmptyDict,
      "title_missing" :> TrueV,
      "title_missing" :> FalseV,
      "description_min_length" :> NumV(2),
      "description_min_length" :> StrV(sT),
      "model_type" :> StrV(sGpt),
      "model_type" :> ListV(<<StrV(sTree), StrV(sGpt)>>),
      "data_types" :> ListV(<<>>),
      "data_types" :> ListV(<<StrV(sGpt)>>),
      "data_types" :> TrueV,
      "retraining_cadence" :> StrV(sTree),
      "retraining_cadence" :> ListV(<<StrV(sTree)>>),
      "retraining_cadence" :> NoneV,
      "privacy_techniques" :> TrueV,
      "safety_mitigations" :> TrueV @@ "credible_harms_listed" :> TrueV,
      "explainability_tooling_missing" :> TrueV,
      "interpretability_not_rated" :> TrueV,
      "fairness_definition_missing" :> TrueV,
      "accountable_owner_missing" :> TrueV,
      "drift_detection_missing" :> TrueV,
      "sustainability_estimate_missing" :> TrueV,
      "explainability_channels_missing" :> TrueV,
      "documentation_consumers_includes" :> ListV(<<StrV(sGptU)>>),
      "documentation_consumers_includes" :> NumV(1),
      "sector" :> StrV(sGptU),
      "sector" :> ListV(<<StrV(sGpt)>>),
      "sector" :> ListV(<<>>),
      "sector" :> NoneV @@ "title_missing" :> TrueV,
      "mttr_target_hours" :> NumV(2),
      "data_types" :> StrV(sGpt) @@ "title_missing" :> TrueV }

\* entries of rules.yaml that are mappings with a mapping (or no) trigger
WellFormedRules == {RuleOf(t) : t \in GateTriggers \cup OtherTriggers}

\* entries of rules.yaml that are not usable rules
MalformedRules ==
    { StrV(sT),                                         \* a bare string entry
      NoneV,                                            \* an empty entry
      DictV("id" :> StrV(sR1) @@ "trigger" :> StrV(sT)),  \* trigger is no mapping
      DictV("id" :> StrV(sR1) @@ "trigger" :> DictV("title_missing" :> TrueV)
            @@ "clause" :> StrV(sC1) @@ "mitigation" :> ListV(<<StrV(sT)>>)) }

RuleSamples == WellFormedRules \cup MalformedRules

\* project facts; every Optional field left out is None
BoolFacts == {"special_category_data", "processes_personal_data",
              "model_cards_published", "significant_decision",
              "penetration_tested", "domain_threshold_met",
              "robustness_above_baseline", "generative_risk_above_baseline",
              "retention_defined", "community_reviews"}

FactsWith(title, bools) ==
    [k \in {"title", "description"} |-> StrV(title)] @@ bools

\* facts that differ from the expected values of the rules in letter case only
factsUpperCase ==
    FactsWith(sT, "model_type" :> StrV(<<"T","R","E","E">>)
                  @@ "data_types" :> ListV(<<StrV(<<"G","P","T">>)>>)
                  @@ "retraining_cadence" :> StrV(<<"T","R","E","E">>))

PayloadSamples ==
    {FactsWith(title, [k \in BoolFacts |-> BoolV(b)]) :
        title \in {sEmpty, sBlank, sT}, b \in BOOLEAN}
    \cup {FactsWith(title, EmptyDict) : title \in {sEmpty, sT}}
    \cup { FactsWith(sEmpty, "processes_personal_data" :> TrueV
                             @@ "community_reviews" :> FalseV),
           factsUpperCase,
           FactsWith(sT, "model_type" :> StrV(sGptU) @@ "sector" :> StrV(sGpt)
                         @@ "data_types" :> ListV(<<StrV(sGpt)>>)
                         @@ "retraining_cadence" :> StrV(sTree)
                         @@ "mttr_target_hours" :> NumV(2)
                         @@ "privacy_techniques" :> ListV(<<StrV(sNoneL)>>)
                         @@ "credible_harms" :> ListV(<<StrV(sT)>>)
                         @@ "explainability_channels" :> ListV(<<StrV(sNone)>>)
                         @@ "documentation_consumers" :> ListV(<<StrV(sGpt)>>)),
           FactsWith(sT, "model_type" :> StrV(sTree)
                         @@ "explainability_tooling" :> StrV(sT)
                         @@ "interpretability_rating" :> StrV(sT)
                         @@ "fairness_definition" :> ListV(<<StrV(sT)>>)
                         @@ "accountable_owner" :> StrV(sT)
                         @@ "drift_detection" :> StrV(sT)
                         @@ "sustainability_estimate" :> StrV(sT)
                         @@ "safety_mitigations" :> ListV(<<StrV(sT)>>)
                         @@ "explainability_channels" :> ListV(<<StrV(sT)>>)
                         @@ "privacy_techniques" :> ListV(<<StrV(sT)>>)) }

-----------------------------------------------------------------------------
(* Policy corpus and retrieval (main.py 346-468) *)

UpperChar(c) ==
    IF \E i \in 1..26 : LowerChars[i] = c
    THEN UpperChars[CHOOSE i \in 1..26 : LowerChars[i] = c]
    ELSE c

\* str.upper()
Upper(s) == [i \in 1..Len(s) |-> UpperChar(s[i])]

\* code-point order of the characters the samples use
CodeOrder == <<" ", "#", ".", "0", "1", "2", "3", "4", "5", "6", "7", "8", "9">>
             \o UpperChars \o LowerChars
CharCode(c) == IF \E i \in 1..Len(CodeOrder) : CodeOrder[i] = c
               THEN CHOOSE i \in 1..Len(CodeOrder) : CodeOrder[i] = c ELSE 0

\* a < b for two strings (the order sorted() puts dictionary keys in)
StrLess(a, b) ==
    \E i \in 1..(Len(a) + 1) :
        /\ i <= Len(b)
        /\ \A j \in 1..(i - 1) : a[j] = b[j]
        /\ (i = Len(a) + 1 \/ CharCode(a[i]) < CharCode(b[i]))

\* a PolicyClause (schemas.py 87-95); framework is Optional[str]
Clause(id, label, text, framework) ==
    [id |-> id, label |-> label, text |-> text, framework |-> framework]

\* SearchHit(clause_id, score, snippet, clause) (schemas.py 102-106); the
\* snippet is a prefix of clause.text and is left to the clause
SearchHit(c, score) == [clause_id |-> c.id, score |-> score, clause |-> c]

\* `(c.framework or dflt).upper()`
FrameworkKey(c, dflt) ==
    Upper(IF Truthy(c.framework) THEN c.framework.s ELSE dflt)

sUNK == <<"U","N","K">>

\* rows.sort(key=score, reverse=True): a stable sort, equal scores keep their order
SortByScoreDesc(rows) ==
    LET n == Len(rows)
        before(i, j) == rows[i].score > rows[j].score
                        \/ (rows[i].score = rows[j].score /\ i < j)
        rank(i) == 1 + Cardinality({j \in 1..n : before(j, i)})
    IN  [r \in 1..n |-> rows[CHOOSE i \in 1..n : rank(i) = r]]

\* sorted(keys)
RECURSIVE SortStrings(_)
SortStrings(S) ==
    IF S = {} THEN <<>>
    ELSE LET m == CHOOSE x \in S : \A y \in S : y = x \/ StrLess(x, y)
         IN  <<m>> \o SortStrings(S \ {m})

Min(a, b) == IF a < b THEN a ELSE b
Max(a, b) == IF a > b THEN a ELSE b
Take(s, n) == SubSeq(s, 1, Min(Len(s), Max(n, 0)))
Drop(s, n) == SubSeq(s, Min(Len(s), Max(n, 0)) + 1, Len(s))

RECURSIVE Concat(_)
Concat(ss) == IF ss = <<>> THEN <<>> ELSE Head(ss) \o Concat(Tail(ss))

\* main.py 452-459: one item per framework per round, frameworks in sorted order
RoundRobin(fws, capped, per_fw) ==
    Concat([r \in 1..per_fw |->
              Concat([f \in 1..Len(fws) |->
                        IF Len(capped[fws[f]]) >= r THEN <<capped[fws[f]][r]>>
                        ELSE <<>>])])

\* main.py 417-468, given the similarity of the query to each matrix row
retrieve(policy, vec, mat, sims, top_k, frameworks) ==
    IF policy = <<>> \/ ~vec.made \/ ~mat.built THEN <<>>
    ELSE
    LET fw_allow == {Upper(f) : f \in Elems(frameworks)}
        admitted(idx, dflt) ==
            fw_allow = {} \/ FrameworkKey(policy[idx], dflt) \in fw_allow
        rows == SelectSeq([i \in 1..Len(sims) |-> [idx |-> i, score |-> sims[i]]],
                          LAMBDA r : admitted(r.idx, sEmpty))
        sorted == SortByScoreDesc(rows)
        kept == SelectSeq(sorted, LAMBDA r : admitted(r.idx, sUNK))
        all == [i \in 1..Len(kept) |-> SearchHit(policy[kept[i].idx], kept[i].score)]
        fwset == {FrameworkKey(all[i].clause, sUNK) : i \in 1..Len(all)}
        buckets == [fw \in fwset |->
                      SelectSeq(all, LAMBDA h : FrameworkKey(h.clause, sUNK) = fw)]
        fws == SortStrings(fwset)
    IN  IF fwset = {} THEN <<>>
        ELSE
        LET per_fw == Max(1, top_k \div Max(1, Len(fws)))
            capped == [fw \in fwset |-> Take(buckets[fw], per_fw)]
            first == Take(RoundRobin(fws, capped, per_fw), top_k)
            remaining == SortByScoreDesc(
                Concat([f \in 1..Len(fws) |->
                          Drop(buckets[fws[f]], Len(capped[fws[f]]))]))
            out == IF Len(first) < top_k
                   THEN first \o Take(remaining, top_k - Len(first))
                   ELSE first
        IN  Take(out, top_k)

-----------------------------------------------------------------------------
(* Generative flag client (llm.py) *)

sGreen  == <<"g","r","e","e","n">>
sAmberL == <<"a","m","b","e","r">>
sModel  == <<"l","l","a","m","a">>

\* a whole-word comparison in place of the first letter
SeverityByWholeWord(v) ==
    IF v = sRed THEN sRed ELSE IF v = sAmberL THEN sAmberL ELSE sGreen

\* "red" | "amber" | "green" by first letter
SeverityByFirstLetter(v) ==
    IF StartsWith(v, <<"r">>) THEN sRed
    ELSE IF StartsWith(v, <<"a">>) THEN sAmberL ELSE sGreen

\* llm.py 41-43
llm_coerce_severity(val) ==
    SeverityByFirstLetter(Norm(PyStr(Or(val, StrV(sEmpty)))))

\* main.py 73-75
_coerce_severity(val) ==
    SeverityByFirstLetter(Norm(PyStr(Or(val, StrV(sGreen)))))

\* llm.py 51: (d.get("reason") or "").strip() fails on a truthy non-string
NormaliseRaises(d) ==
    Truthy(Get(d, "reason")) /\ ~IsStr(Get(d, "reason"))

\* llm.py 45-57
_normalise_flag(d) ==
    "id" :> StrV(Strip(PyStr(Or(Or(Get(d, "id"), Get(d, "clause")), StrV(sEmpty)))))
    @@ "clause" :> StrV(Strip(PyStr(Or(Or(Get(d, "clause"), Get(d, "id")), StrV(sEmpty)))))
    @@ "severity" :> StrV(llm_coerce_severity(Get(d, "severity")))
    @@ "reason" :> StrV(Strip(Or(Get(d, "reason"), StrV(sEmpty)).s))
    @@ "mitigation" :> Get(d, "mitigation")
    @@ "evidence" :> Get(d, "evidence")
    @@ "model" :> StrV(sModel)
    @@ "meta" :> Get(d, "meta")

\* llm.py 59-65: the list of items of a parsed response
_ensure_flags_container(obj) ==
    IF obj.t = "list" THEN obj.l
    ELSE IF obj.t = "dict" /\ Get(obj.d, "flags").t = "list"
         THEN Get(obj.d, "flags").l
    ELSE <<>>

\* llm.py 106-109: the dict items of the container, in order
ContainerItems(parsed) ==
    SelectSeq(_ensure_flags_container(parsed), LAMBDA x : x.t = "dict")

\* llm.py 83-110: _call_once on a response whose text parsed to `parsed`
\* (None when no JSON could be extracted)
CallOnceRaises(parsed) ==
    \E i \in 1..Len(ContainerItems(parsed)) :
        NormaliseRaises(ContainerItems(parsed)[i].d)

CallOnceFlags(parsed) ==
    [i \in 1..Len(ContainerItems(parsed)) |->
        _normalise_flag(ContainerItems(parsed)[i].d)]

\* llm.py 15, 125, in tenths
OLLAMA_TEMPERATURE == 2
RetryTempFloor == 3
RetryTempDelta == 1

\* llm.py 116-127: the arguments of the recursive call
sysBase  == <<"system">>
userBase == <<"user">>
\* a faulty retry: the second call may itself be retried
RetryArgsAgain(g) ==
    [system |-> g.system \o <<"be decisive">>,
     user |-> g.user \o <<"emit at least one GREEN">>,
     temperature |-> Max(RetryTempFloor, g.temperature + RetryTempDelta),
     retry_on_empty |-> TRUE]

RetryArgs(g) ==
    [system |-> g.system \o <<"be decisive">>,
     user |-> g.user \o <<"emit at least one GREEN">>,
     temperature |-> Max(RetryTempFloor, g.temperature + RetryTempDelta),
     retry_on_empty |-> FALSE]

\* llm.py 68-75 as analyse calls it (main.py 776)
FirstArgs ==
    [system |-> sysBase, user |-> userBase,
     temperature |-> OLLAMA_TEMPERATURE, retry_on_empty |-> TRUE]

\* llm.py 115: whether generate_flags calls itself again after this result
ShouldRetry(g, flags) == g.retry_on_empty /\ flags = <<>>

-----------------------------------------------------------------------------
(* Reconciler: enrichment, allow-list, rule flags, synthesis (main.py 576-837) *)

\* the enrichment dict of a clause (main.py 698-701); link, document and phase
\* travel with label and framework and are not tracked
MetaOf(c) == "label" :> StrV(c.label) @@ "framework" :> c.framework

sRetrieval == <<"r","e","t","r","i","e","v","a","l">>
sBestHit   == <<"r","e","a","s","o","n","-","b","e","s","t","-","h","i","t">>
sLegacy    == <<"l","e","g","a","c","y","-","r","u","l","e">>
sUnknown   == <<"u","n","k","n","o","w","n">>

\* main.py 693-709: a dict, or None
_lookup_clause_meta(clause_id, hs, policy) ==
    LET cid == Norm(clause_id)
        Match == {i \in 1..Len(policy) :
                    Norm(policy[i].id) = cid \/ Norm(policy[i].label) = cid}
    IN  IF cid # sEmpty /\ Match # {}
        THEN DictV(MetaOf(policy[CHOOSE i \in Match : \A j \in Match : i <= j]))
        ELSE IF hs # <<>>
        THEN DictV(MetaOf(hs[1].clause) @@ "matched_by" :> StrV(sRetrieval))
        ELSE NoneV

\* difflib.SequenceMatcher: the longest block common to a and b, the earliest
\* in a and then in b among the longest
LongestMatch(a, b) ==
    LET Blocks == {<<i, j, k>> \in (1..Len(a)) \X (1..Len(b)) \X (1..Min(Len(a), Len(b))) :
                     /\ i + k - 1 <= Len(a) /\ j + k - 1 <= Len(b)
                     /\ SubSeq(a, i, i + k - 1) = SubSeq(b, j, j + k - 1)}
    IN  IF Blocks = {} THEN <<0, 0, 0>>
        ELSE CHOOSE m \in Blocks : \A o \in Blocks :
                \/ m[3] > o[3]
                \/ (m[3] = o[3] /\ m[1] < o[1])
                \/ (m[3] = o[3] /\ m[1] = o[1] /\ m[2] <= o[2])

\* the number of matched characters: the longest block, then both sides of it
RECURSIVE MatchedChars(_, _)
MatchedChars(a, b) ==
    LET m == LongestMatch(a, b)
    IN  IF m[3] = 0 THEN 0
        ELSE m[3] + MatchedChars(SubSeq(a, 1, m[1] - 1), SubSeq(b, 1, m[2] - 1))
                  + MatchedChars(SubSeq(a, m[1] + m[3], Len(a)),
                                 SubSeq(b, m[2] + m[3], Len(b)))

\* SequenceMatcher(None, a, b).ratio(), in tenths, rounded down
RatioTenths(a, b) ==
    IF Len(a) + Len(b) = 0 THEN 10
    ELSE (20 * MatchedChars(a, b)) \div (Len(a) + Len(b))

BestHitWindow == 8
ScoreWeight == 7
SimWeight == 3

\* main.py 712-731: a dict, or None; scores are in tenths
_best_hit_for_reason(hs, reason) ==
    IF hs = <<>> THEN NoneV
    ELSE LET top == Take(hs, BestHitWindow)
             score(i) == ScoreWeight * top[i].score
                         + SimWeight * RatioTenths(Lower(reason), Lower(top[i].clause.text))
             best == CHOOSE i \in 1..Len(top) :
                        \A j \in 1..Len(top) :
                            score(i) > score(j) \/ (score(i) = score(j) /\ i <= j)
         IN  DictV(MetaOf(top[best].clause) @@ "matched_by" :> StrV(sBestHit))

\* a faulty allow-list: the ids of the whole corpus, retrieved or not
valid_ids_of_corpus(hs) == {Norm(POLICY[i].id) : i \in 1..Len(POLICY)}

\* main.py 783
valid_ids(hs) == {Norm(hs[i].clause.id) : i \in 1..Len(hs)}

\* a Flag (schemas.py 110-118); idx is the position of the item it came from
\* (llm_out["flags"], RULES or the battery of positive checks)
Flag(id, clause, severity, reason, mitigation, model, meta, idx) ==
    [id |-> id, clause |-> clause, severity |-> severity, reason |-> reason,
     mitigation |-> mitigation, model |-> model, meta |-> meta, idx |-> idx]

NoFlag == Flag(sEmpty, sEmpty, sGreen, sEmpty, NoneV, NoneV, NoneV, 0)

\* Flag(...) rejects a mitigation or evidence that is neither None nor a string
FlagRejects(mitigation, evidence) ==
    mitigation.t \notin {"none", "str"} \/ evidence.t \notin {"none", "str"}

\* main.py 796-801: the id of the first hit whose label is the enrichment's label
BackfillId(clause_id, enrich, hs) ==
    LET lab == Get(enrich, "label")
        Same == {i \in 1..Len(hs) : Norm(hs[i].clause.label) = Norm(lab.s)}
    IN  IF clause_id = sEmpty /\ Truthy(lab) /\ Same # {}
        THEN hs[CHOOSE i \in Same : \A j \in Same : i <= j].clause.id
        ELSE clause_id

\* a faulty guard: nothing is dropped
InAllowListOpen(clause_id, hs) == TRUE

\* main.py 804: the allow-list test on the resolved clause id
InAllowList(clause_id, hs) == Norm(clause_id) \in valid_ids(hs)

\* main.py 786-810: one item of llm_out["flags"]; "kept" with its Flag,
\* "dropped" by the allow-list, or "skipped" on an exception
ValidateFlag(f, idx, hs, policy) ==
    LET raw_id == Strip(Or(Or(Get(f, "clause"), Get(f, "id")), StrV(sEmpty)).s)
        meta == Or(Get(f, "meta"), DictV(EmptyDict))
        found == _lookup_clause_meta(raw_id, hs, policy)
        enrich == IF Truthy(found) THEN found
                  ELSE Or(_best_hit_for_reason(hs, Get(f, "reason").s), DictV(EmptyDict))
        clause_id == BackfillId(raw_id, enrich.d, hs)
        clause == IF clause_id # raw_id THEN clause_id ELSE Get(f, "clause").s
    IN  IF meta.t # "dict" THEN [status |-> "skipped", flag |-> NoFlag]
        ELSE IF ~InAllowList(clause_id, hs) THEN [status |-> "dropped", flag |-> NoFlag]
        ELSE IF FlagRejects(Get(f, "mitigation"), Get(f, "evidence"))
             THEN [status |-> "skipped", flag |-> NoFlag]
        ELSE [status |-> "kept",
              flag |-> Flag(Get(f, "id").s, clause, Get(f, "severity").s,
                            Get(f, "reason").s, Get(f, "mitigation"),
                            Get(f, "model"), DictV(enrich.d @@ meta.d), idx)]

\* main.py 785-810: the whole loop over llm_out["flags"]
ValidateAll(fs, hs, policy) ==
    LET res == [i \in 1..Len(fs) |-> ValidateFlag(fs[i], i, hs, policy)]
        kept == SelectSeq(res, LAMBDA r : r.status = "kept")
    IN  [i \in 1..Len(kept) |-> kept[i].flag]

\* main.py 818-829: the Flag of a fired rule
RuleFlag(rule, idx, hs, policy) ==
    LET clause_id == PyStr(GetOr(rule, "clause", StrV(sEmpty)))
        meta == Or(_lookup_clause_meta(clause_id, hs, policy),
                   DictV("source" :> StrV(sLegacy)))
    IN  Flag(PyStr(GetOr(rule, "id", StrV(sEmpty))),
             IF clause_id # sEmpty THEN clause_id
             ELSE Or(Get(meta.d, "label"), StrV(sUnknown)).s,
             _coerce_severity(GetOr(rule, "severity", StrV(sGreen))),
             PyStr(GetOr(rule, "reason", StrV(sEmpty))),
             Get(rule, "mitigation"), NoneV,
             DictV("source" :> StrV(sLegacy) @@ meta.d), idx)

\* main.py 816-831: one pass of the rule loop: "flag", "none" (not fired, or
\* the error was logged and the rule skipped) or "escape" (the handler itself
\* raised: rule.get('id') on an entry that is no mapping)
RuleStepOutcome(rule, p) ==
    LET r == evaluate_rule(rule, p)
    IN  IF r = "raise" \/ (r = "true" /\ FlagRejects(Get(rule.d, "mitigation"), NoneV))
        THEN IF rule.t = "dict" THEN "none" ELSE "escape"
        ELSE IF r = "true" THEN "flag" ELSE "none"

\* a faulty merge: rule flags first
MergeFlagsRulesFirst(mf, lf) == lf \o mf

\* main.py 833
MergeFlags(mf, lf) == mf \o lf

-----------------------------------------------------------------------------
(* Synthesis of green flags (main.py 576-688) *)

\* the clause ids of the positive checks, abbreviated:
\* "ISO 42001 §8.2 Data-Management", "DSIT §3.2.3 Transparency",
\* "ISO 42001 AnnexA A.6.8 Explainability", "ICO-Audit Pre-Deployment-Testing",
\* "ISO 42001 §8.3 Design-Development", "ISO 42001 AnnexA A.6.5 Robustness-Accuracy",
\* "DSIT §3.2.3 Accountability", "ISO 42001 AnnexA A.6.2 Data-Quality",
\* "ICO-Audit Inference-Labeling"
cidDataManagement  == <<"I","S","O"," ","8",".","2">>
cidTransparency    == <<"D","S","I","T"," ","T">>
cidExplainability  == <<"I","S","O"," ","A","6",".","8">>
cidPreDeployment   == <<"I","C","O"," ","P">>
cidDesignDev       == <<"I","S","O"," ","8",".","3">>
cidRobustness      == <<"I","S","O"," ","A","6",".","5">>
cidAccountability  == <<"D","S","I","T"," ","A">>
cidDataQuality     == <<"I","S","O"," ","A","6",".","2">>
cidInferenceLabel  == <<"I","C","O"," ","L">>

sHigh == <<"h","i","g","h">>
sBecause == <<"b","e","c","a","u","s","e">>

\* main.py 576-582 on an Optional[float]
_has_real_number(v) == v.t = "num"

\* main.py 614-618 on an Optional[str]: float(ir) >= 3, or one of the tokens
InterpretabilityOk(ir) ==
    IF ~IsStr(ir) THEN FALSE
    ELSE LET w == Strip(ir.s)
         IN  IF Len(w) = 1 /\ \E d \in 1..10 : Digits[d] = w[1]
             THEN (CHOOSE d \in 1..10 : Digits[d] = w[1]) - 1 >= 3
             ELSE w = sHigh

\* main.py 586-588
has_clause(cid, hs) ==
    \E i \in 1..Len(hs) : Norm(hs[i].clause.id) = Norm(cid)

\* main.py 593-686: the positive checks in order, the condition of each on the
\* facts and the clause it vouches for
PositiveChecks(ps) ==
    << [ok |-> Truthy(Get(ps, "retention_defined")) /\ Truthy(Get(ps, "lineage_doc_present"))
               /\ Truthy(Get(ps, "privacy_techniques")),
        cid |-> cidDataManagement],
       [ok |-> Truthy(Get(ps, "explainability_tooling"))
               /\ Truthy(Get(ps, "explainability_channels")),
        cid |-> cidTransparency],
       [ok |-> InterpretabilityOk(Get(ps, "interpretability_rating"))
               /\ Truthy(Get(ps, "explainability_tooling")),
        cid |-> cidExplainability],
       [ok |-> Truthy(Get(ps, "penetration_tested"))
               /\ Truthy(Get(ps, "pre_deployment_testing")),
        cid |-> cidPreDeployment],
       [ok |-> Truthy(Get(ps, "domain_threshold_met"))
               /\ _has_real_number(Get(ps, "validation_score")),
        cid |-> cidDesignDev],
       [ok |-> Truthy(Get(ps, "robustness_above_baseline")),
        cid |-> cidRobustness],
       [ok |-> Truthy(Get(ps, "accountable_owner")) /\ Truthy(Get(ps, "escalation_route")),
        cid |-> cidAccountability],
       [ok |-> Truthy(Get(ps, "data_quality_checks"))
               /\ _has_real_number(Get(ps, "validation_score")),
        cid |-> cidDataQuality],
       [ok |-> Truthy(Get(ps, "outputs_exposed_to_end_users"))
               /\ Truthy(Get(ps, "output_label_includes_probabilistic")),
        cid |-> cidInferenceLabel] >>

\* main.py 688: greens[:8]
SynthLimit == 8

\* a faulty synthesis: no cap on the list
KeepAll(greens) == greens

KeepTidy(greens) == Take(greens, SynthLimit)

\* main.py 584-688
_synthesise_green_flags(ps, hs) ==
    LET checks == PositiveChecks(ps)
        Passing == {i \in 1..Len(checks) : checks[i].ok /\ has_clause(checks[i].cid, hs)}
        all == [i \in 1..Len(checks) |->
                  Flag(checks[i].cid, checks[i].cid, sGreen, sBecause,
                       NoneV, NoneV, NoneV, i)]
        greens == SelectSeq(all, LAMBDA f : f.idx \in Passing)
    IN  KeepTidy(greens)

-----------------------------------------------------------------------------
(* Inputs of the pipeline: corpora, similarity scores, requests, responses *)

sL1 == <<"L","1">>
sC1U == <<"C","1">>
sZZ == <<"z","z">>
sICO == <<"I","C","O">>
sDSIT == <<"d","s","i","t">>
sISO == <<"I","S","O">>

clauseC1 == Clause(sC1, sL1, <<"t","e","x","t">>, StrV(sICO))
clauseC2 == Clause(<<"c","2">>, <<"L","2">>, sBecause, StrV(sDSIT))
\* a clause whose id is a positive check's id in another letter case
clauseRobLower == Clause(Lower(cidRobustness), <<"R","o","b">>, sT, NoneV)

CorpusSmall == <<clauseC1, clauseC2, clauseRobLower>>

SynthIds == <<cidDataManagement, cidTransparency, cidExplainability,
              cidPreDeployment, cidDesignDev, cidRobustness, cidAccountability,
              cidDataQuality, cidInferenceLabel>>

CorpusSynth ==
    [i \in 1..Len(SynthIds) |->
        Clause(SynthIds[i], <<"S", Digits[i + 1]>>, sT,
               StrV(SubSeq(SynthIds[i], 1, 3)))] \o <<clauseC1>>

TwoDigits(i) == <<Digits[((i \div 10) % 10) + 1], Digits[(i % 10) + 1]>>

\* more clauses than analyse retrieves
BigSize == 22
CorpusBig ==
    [i \in 1..BigSize |->
        IF i = 1 THEN clauseC1
        ELSE Clause(<<"k">> \o TwoDigits(i), <<"K">> \o TwoDigits(i), sT,
                    StrV(<<sICO, sDSIT, sISO>>[(i % 3) + 1]))]

CorpusSamples == {<<>>, CorpusSmall, CorpusSynth, CorpusBig}

\* hashlib.sha256(raw).hexdigest()[:12] of the corpus text (main.py 406): the
\* digest stands for the rows it was computed from
Digest(rows) == [i \in 1..Len(rows) |-> rows[i].id]

\* the globals after load_policy_corpus() has run to its end on `rows`
\* (main.py 371-412)
LoadedPolicy(rows) == rows
LoadedVersion(rows) == IF rows = <<>> THEN <<>> ELSE Digest(rows)
LoadedVectorizer(rows) ==
    [made |-> rows # <<>>, fitted |-> rows # <<>>, on |-> Digest(rows)]
LoadedMatrix(rows) == [built |-> rows # <<>>, rows |-> Digest(rows)]

\* a faulty index: the scores of a query change from one run to the next
SimsDrifting(profile, n) ==
    [i \in 1..n |-> IF run = 2 THEN n - i ELSE i]

\* cosine_similarity(vec, _matrix)[0] (main.py 421-422), in tenths: one score
\* per matrix row; which scores a query gets is the vector space's business
ScoreProfiles == {"flat", "asc", "two"}
Sims(profile, n) ==
    [i \in 1..n |-> CASE profile = "flat" -> 5
                      [] profile = "asc"  -> (i * 10) \div (n + 1)
                      [] OTHER            -> IF i % 2 = 0 THEN 8 ELSE 2]

\* main.py 763
AnalyseTopK == 20

\* items a model can put in its "flags" list
itemGood == "id" :> StrV(sC1) @@ "clause" :> StrV(sC1) @@ "severity" :> StrV(sRed)
            @@ "reason" :> StrV(sBecause)
itemOtherCase == "clause" :> StrV(sC1U) @@ "severity" :> StrV(sAmber)
                 @@ "reason" :> StrV(sBecause)
itemHallucinated == "clause" :> StrV(sZZ) @@ "reason" :> StrV(sBecause)
itemNoClause == "severity" :> StrV(sAmber) @@ "reason" :> StrV(sBecause)
itemIdOnly == "clause" :> StrV(sBlank) @@ "id" :> StrV(sC1) @@ "reason" :> StrV(sT)
itemLabel == "clause" :> StrV(sL1) @@ "reason" :> StrV(sBecause)
itemBadMitigation == "clause" :> StrV(sC1) @@ "reason" :> StrV(sBecause)
                     @@ "mitigation" :> ListV(<<StrV(sT)>>)
itemBadMeta == "clause" :> StrV(sC1) @@ "reason" :> StrV(sBecause)
               @@ "meta" :> ListV(<<StrV(sT)>>)
itemBadReason == "clause" :> StrV(sC1) @@ "reason" :> NumV(5)
itemBlankReason == "clause" :> StrV(sC1) @@ "reason" :> StrV(sBlank)
itemNoReason == "clause" :> StrV(sC1) @@ "severity" :> StrV(sRed)

RawItems == {DictV(itemGood), DictV(itemOtherCase), DictV(itemHallucinated),
             DictV(itemNoClause), DictV(itemIdOnly)}

\* the longest "flags" list a response carries
MaxFlags == 2

ItemLists == UNION {[1..n -> RawItems] : n \in 0..MaxFlags}

\* what the response text of one call parses to (None: no JSON in it)
Responses ==
    {DictV("flags" :> ListV(l)) : l \in ItemLists}
    \cup {ListV(l) : l \in {m \in ItemLists : Len(m) = 1}}
    \cup { NoneV,
           DictV("flags" :> StrV(sT)),
           ListV(<<StrV(sT)>>),
           ListV(<<DictV(itemBadMeta), DictV(itemGood)>>),
           ListV(<<DictV(itemLabel), DictV(itemOtherCase)>>),
           ListV(<<DictV(itemGood), DictV(itemBadMitigation), DictV(itemGood)>>),
           ListV(<<DictV(itemGood), DictV(itemBadReason)>>),
           ListV(<<DictV(itemBlankReason), DictV(itemNoReason)>>) }

\* rule sets as rules.yaml can hold them
ruleTitle   == MkRule(sR1, "title_missing" :> TrueV, sZZ, sRed, sTitleMissing)
ruleTitleC1 == MkRule(<<"R","2">>, "title_missing" :> TrueV, sC1, sAmber, sTitleMissing)
ruleNoClause == DictV("id" :> StrV(<<"R","3">>)
                      @@ "trigger" :> DictV("title_missing" :> TrueV))
ruleSpecial == MkRule(<<"R","4">>, "special_category_data" :> TrueV, sC1, sRed, sT)
ruleBadTrigger == DictV("id" :> StrV(sR1) @@ "trigger" :> StrV(sT))
ruleBadMitigation ==
    DictV("id" :> StrV(sR1) @@ "trigger" :> DictV("title_missing" :> TrueV)
          @@ "clause" :> StrV(sC1) @@ "mitigation" :> ListV(<<StrV(sT)>>))

RuleSetSamples ==
    { <<>>,
      <<ruleTitle>>,
      <<ruleTitleC1, ruleSpecial>>,
      <<ruleSpecial, ruleNoClause>>,
      <<ruleBadTrigger, ruleTitle>>,
      <<ruleBadMitigation, ruleTitleC1>>,
      <<StrV(sT), ruleTitle>>,
      <<ruleTitle, NoneV>> }

\* requests
factsUntitled == FactsWith(sBlank, EmptyDict)
factsPlain == FactsWith(sT, "special_category_data" :> TrueV)
factsRobust == FactsWith(sT, "robustness_above_baseline" :> TrueV)
factsAllGood ==
    FactsWith(sT,
        [k \in {"retention_defined", "lineage_doc_present", "penetration_tested",
                "pre_deployment_testing", "domain_threshold_met",
                "robustness_above_baseline", "data_quality_checks",
                "outputs_exposed_to_end_users",
                "output_label_includes_probabilistic"} |-> TrueV]
        @@ [k \in {"privacy_techniques", "explainability_channels"} |->
                ListV(<<StrV(sT)>>)]
        @@ [k \in {"explainability_tooling", "accountable_owner",
                   "escalation_route"} |-> StrV(sT)]
        @@ "interpretability_rating" :> StrV(<<"4">>)
        @@ "validation_score" :> NumV(1))

RequestSamples == {factsUntitled, factsPlain, factsRobust, factsAllGood}

\* the rule sets a request is run against: every rule set on the facts that
\* make rules fire, the quiet ones on the facts that feed synthesis
RuleSetsFor(facts) ==
    IF facts \in {factsUntitled, factsPlain} THEN RuleSetSamples
    ELSE {<<>>, <<ruleSpecial, ruleNoClause>>}

\* the score profiles a corpus is queried under
ProfilesFor(rows) == IF Len(rows) > AnalyseTopK THEN ScoreProfiles ELSE {"flat"}

-----------------------------------------------------------------------------
(* One analyse request (main.py 757-845), step by step *)

NoResponse == [status |-> "none", flags |-> <<>>, corpus_version |-> <<>>]

\* the corpus globals as load_policy_corpus() left them at import (main.py 414)
CorpusInit ==
    \E rows \in CorpusSamples :
        /\ POLICY = LoadedPolicy(rows)
        /\ POLICY_VERSION = LoadedVersion(rows)
        /\ vectorizer = LoadedVectorizer(rows)
        /\ matrix = LoadedMatrix(rows)

RequestInit ==
    /\ payload \in RequestSamples
    /\ RULES \in RuleSetsFor(payload)
    /\ USE_LLM \in BOOLEAN
    /\ sim_profile \in ProfilesFor(POLICY)
    /\ pc = "retrieve"
    /\ hits = <<>>
    /\ gen = FirstArgs
    /\ calls = <<>>
    /\ llm_out = <<>>
    /\ model_flags = <<>>
    /\ rule_i = 1
    /\ legacy_flags = <<>>
    /\ all_flags = <<>>
    /\ response = NoResponse

\* the harness of evaluate_rule at rest
RuleIdle ==
    /\ er_rule = NoneV
    /\ er_payload = EmptyDict
    /\ er_result = "idle"

\* no load running and no concurrent request
NothingRead ==
    [policy |-> [read |-> FALSE, v |-> <<>>],
     version |-> [read |-> FALSE, v |-> <<>>],
     vec |-> [read |-> FALSE, v |-> LoadedVectorizer(<<>>)],
     mat |-> [read |-> FALSE, v |-> LoadedMatrix(<<>>)],
     raised |-> FALSE]

ReloadIdle ==
    /\ ld_pc = "idle"
    /\ ld_rows = <<>>
    /\ rd_pc = "idle"
    /\ rd_kind = "none"
    /\ rd_seen = NothingRead

\* no repeated request and no function under harness
AuxIdle ==
    /\ tape = <<>>
    /\ run = 0
    /\ first_run = NoResponse
    /\ other = NoResponse
    /\ h_in = <<>>
    /\ h_out = <<>>

\* no request in the pipeline
RequestIdle ==
    /\ RULES = <<>>
    /\ USE_LLM = TRUE
    /\ payload = EmptyDict
    /\ sim_profile = "flat"
    /\ pc = "idle"
    /\ hits = <<>>
    /\ gen = FirstArgs
    /\ calls = <<>>
    /\ llm_out = <<>>
    /\ model_flags = <<>>
    /\ rule_i = 1
    /\ legacy_flags = <<>>
    /\ all_flags = <<>>
    /\ response = NoResponse

CorpusIdle ==
    /\ POLICY = <<>>
    /\ POLICY_VERSION = <<>>
    /\ vectorizer = LoadedVectorizer(<<>>)
    /\ matrix = LoadedMatrix(<<>>)

\* the most inference calls one request is followed through
MaxCalls == 3

\* main.py 761-770: retrieval, then the prompts
Retrieve ==
    /\ pc = "retrieve"
    /\ hits' = retrieve(POLICY, vectorizer, matrix,
                        Sims(sim_profile, Len(matrix.rows)), AnalyseTopK, <<>>)
    /\ gen' = FirstArgs
    /\ pc' = IF USE_LLM THEN "generate" ELSE "validate"
    /\ UNCHANGED <<RULES, USE_LLM, payload, sim_profile, calls, llm_out,
                   model_flags, rule_i, legacy_flags, all_flags, response>>

\* llm.py 96-97 raising (timeout, transport error, non-2xx): the exception
\* leaves generate_flags and is caught by analyse (main.py 777-779)
CallFails ==
    /\ pc = "generate"
    /\ Len(calls) < MaxCalls
    /\ calls' = Append(calls, [args |-> gen, outcome |-> "error", n |-> 0])
    /\ llm_out' = <<>>
    /\ pc' = "validate"
    /\ UNCHANGED <<RULES, USE_LLM, payload, sim_profile, hits, gen,
                   model_flags, rule_i, legacy_flags, all_flags, response>>

\* llm.py 83-129: one call that is answered; generate_flags either returns
\* the normalised flags or calls itself once more with the retry arguments
CallReturnsWith(parsed) ==
    /\ pc = "generate"
    /\ Len(calls) < MaxCalls
    /\    IF CallOnceRaises(parsed)
          THEN /\ calls' = Append(calls, [args |-> gen, outcome |-> "error", n |-> 0])
               /\ llm_out' = <<>>
               /\ pc' = "validate"
               /\ gen' = gen
          ELSE LET flags == CallOnceFlags(parsed)
               IN  /\ calls' = Append(calls, [args |-> gen, outcome |-> "ok",
                                              n |-> Len(flags)])
                   /\ IF ShouldRetry(gen, flags)
                      THEN /\ gen' = RetryArgs(gen)
                           /\ llm_out' = <<>>
                           /\ pc' = "generate"
                      ELSE /\ gen' = gen
                           /\ llm_out' = flags
                           /\ pc' = "validate"
    /\ UNCHANGED <<RULES, USE_LLM, payload, sim_profile, hits,
                   model_flags, rule_i, legacy_flags, all_flags, response>>

CallReturns == \E parsed \in Responses : CallReturnsWith(parsed)

\* main.py 782-810
Validate ==
    /\ pc = "validate"
    /\ model_flags' = ValidateAll(llm_out, hits, POLICY)
    /\ rule_i' = 1
    /\ pc' = "rules"
    /\ UNCHANGED <<RULES, USE_LLM, payload, sim_profile, hits, gen, calls,
                   llm_out, legacy_flags, all_flags, response>>

\* main.py 815-831: one pass of the rule loop
RuleStep ==
    /\ pc = "rules"
    /\ rule_i <= Len(RULES)
    /\ LET out == RuleStepOutcome(RULES[rule_i], payload)
       IN  /\ legacy_flags' =
                IF out = "flag"
                THEN Append(legacy_flags,
                            RuleFlag(RULES[rule_i].d, rule_i, hits, POLICY))
                ELSE legacy_flags
           /\ pc' = IF out = "escape" THEN "raised" ELSE "rules"
           /\ response' = IF out = "escape"
                          THEN [NoResponse EXCEPT !.status = "error"]
                          ELSE response
    /\ rule_i' = rule_i + 1
    /\ UNCHANGED <<RULES, USE_LLM, payload, sim_profile, hits, gen, calls,
                   llm_out, model_flags, all_flags>>

\* main.py 833
Merge ==
    /\ pc = "rules"
    /\ rule_i > Len(RULES)
    /\ all_flags' = MergeFlags(model_flags, legacy_flags)
    /\ pc' = "merged"
    /\ UNCHANGED <<RULES, USE_LLM, payload, sim_profile, hits, gen, calls,
                   llm_out, model_flags, rule_i, legacy_flags, response>>

\* a faulty step: the positive checks are added to whatever was merged
SynthesiseAlways ==
    /\ pc = "merged"
    /\ all_flags' = all_flags \o _synthesise_green_flags(payload, hits)
    /\ response' = [status |-> "ok", flags |-> all_flags',
                    corpus_version |-> POLICY_VERSION]
    /\ pc' = "done"
    /\ UNCHANGED <<RULES, USE_LLM, payload, sim_profile, hits, gen, calls,
                   llm_out, model_flags, rule_i, legacy_flags>>

\* main.py 836-837, then 839-845
Synthesise ==
    /\ pc = "merged"
    /\ all_flags = <<>>
    /\ all_flags' = _synthesise_green_flags(payload, hits)
    /\ response' = [status |-> "ok", flags |-> all_flags',
                    corpus_version |-> POLICY_VERSION]
    /\ pc' = "done"
    /\ UNCHANGED <<RULES, USE_LLM, payload, sim_profile, hits, gen, calls,
                   llm_out, model_flags, rule_i, legacy_flags>>

\* main.py 836 (nothing to synthesise), then 839-845
Return ==
    /\ pc = "merged"
    /\ all_flags # <<>>
    /\ response' = [status |-> "ok", flags |-> all_flags,
                    corpus_version |-> POLICY_VERSION]
    /\ pc' = "done"
    /\ UNCHANGED <<RULES, USE_LLM, payload, sim_profile, hits, gen, calls,
                   llm_out, model_flags, rule_i, legacy_flags, all_flags>>

Init == CorpusInit /\ RequestInit /\ RuleIdle /\ ReloadIdle /\ AuxIdle

Next ==
    \/ Retrieve /\ UNCHANGED <<ruleVars, corpusVars, reloadVars, auxVars>>
    \/ CallFails /\ UNCHANGED <<ruleVars, corpusVars, reloadVars, auxVars>>
    \/ CallReturns /\ UNCHANGED <<ruleVars, corpusVars, reloadVars, auxVars>>
    \/ Validate /\ UNCHANGED <<ruleVars, corpusVars, reloadVars, auxVars>>
    \/ RuleStep /\ UNCHANGED <<ruleVars, corpusVars, reloadVars, auxVars>>
    \/ Merge /\ UNCHANGED <<ruleVars, corpusVars, reloadVars, auxVars>>
    \/ Synthesise /\ UNCHANGED <<ruleVars, corpusVars, reloadVars, auxVars>>
    \/ Return /\ UNCHANGED <<ruleVars, corpusVars, reloadVars, auxVars>>

Spec == Init /\ [][Next]_vars

-----------------------------------------------------------------------------
(* evaluate_rule applied to one rule and one fact record *)

RuleInit ==
    /\ er_rule \in RuleSamples
    /\ er_payload \in PayloadSamples
    /\ er_result = "pending"
    /\ CorpusIdle
    /\ RequestIdle
    /\ ReloadIdle
    /\ AuxIdle

\* the call evaluate_rule(rule, payload_dict) of main.py 817
EvalRule ==
    /\ er_result = "pending"
    /\ er_result' = evaluate_rule(er_rule, er_payload)
    /\ UNCHANGED <<er_rule, er_payload>>

RuleNext == EvalRule /\ UNCHANGED <<corpusVars, reqVars, reloadVars, auxVars>>

SpecRule == RuleInit /\ [][RuleNext]_vars

-----------------------------------------------------------------------------
(* Claims about evaluate_rule, checked under SpecRule *)

\* the trigger block evaluate_rule reads from a rule (empty when there is none)
TriggerOf(rule) ==
    IF rule.t = "dict" /\ Get(rule.d, "trigger").t = "dict"
    THEN Get(rule.d, "trigger").d ELSE EmptyDict

\* the boolean a gate key requires of its fact: the trigger's own value for the
\* value gates, the fixed literal for a switched-on flag gate
GateRequires(k, trig) == IF k \in ValueGateKeys THEN trig[k].b ELSE FlagGateWant(k)

\* the gates a trigger block states: a value gate with a boolean value (true
\* or false), a flag gate that is switched on
StatedGates(trig) ==
    {k \in DOMAIN trig :
        \/ k \in ValueGateKeys /\ IsBool(trig[k])
        \/ k \in FlagGateKeys /\ IsSame(trig[k], TrueV)}

\* C3: a rule with an explicit boolean gate fires only when the gated fact is
\* present and is exactly the boolean the rule requires, whether the rule
\* requires true or requires false (absent and non-matching facts never fire).
C3_StrictBooleanGates ==
    er_result = "true" =>
        \A k \in StatedGates(TriggerOf(er_rule)) :
            IsSame(Get(er_payload, GateField(k)),
                   BoolV(GateRequires(k, TriggerOf(er_rule))))

\* C4: evaluate_rule returns true only if every key of the trigger block had
\* its condition checked and satisfied; no key is passed over while the rule
\* still fires.
C4_ConjunctionOverAllKeys ==
    er_result = "true" =>
        \A k \in DOMAIN TriggerOf(er_rule) :
            KeyOutcome(k, TriggerOf(er_rule), er_payload) = "pass"

-----------------------------------------------------------------------------
(* Claims about analyse, checked under Spec *)

Returned == response.status = "ok"
Range(q) == {q[i] : i \in 1..Len(q)}

IsGenerative(f)  == f.model.t = "str"
IsRuleFlag(f)    == f.model.t = "none" /\ f.meta.t = "dict"
IsSynthesized(f) == f.model.t = "none" /\ f.meta.t = "none"

RetrievedIds == {hits[i].clause.id : i \in 1..Len(hits)}
RetrievedNormIds == {Norm(id) : id \in RetrievedIds}

\* the clause reference analyse resolves for a generative flag: its clause, or
\* its id when the clause is blank
ResolvedReference(f) == IF f.clause # sEmpty THEN f.clause ELSE Strip(f.id)

\* C1 as stated: every returned flag, whatever produced it, has a clause equal
\* to the id of a retrieved clause.
C1_EveryFlagReferencesRetrievedClause ==
    Returned => \A f \in Range(response.flags) : f.clause \in RetrievedIds

\* C1 as amended: every returned generative flag's resolved clause reference
\* and every returned synthesized flag's clause is, after trimming and
\* lower-casing, the id of a retrieved clause; rule flags are not held to the
\* retrieved set.
C1_GenerativeAndSynthesizedReferToRetrieved ==
    Returned =>
        \A f \in Range(response.flags) :
            \/ IsRuleFlag(f)
            \/ IsGenerative(f) /\ Norm(ResolvedReference(f)) \in RetrievedNormIds
            \/ IsSynthesized(f) /\ Norm(f.clause) \in RetrievedNormIds

\* a returned list holding a generative flag next to a rule flag whose clause
\* was not retrieved
C1_Witness ==
    /\ Returned
    /\ \E f \in Range(response.flags) : IsGenerative(f)
    /\ \E f \in Range(response.flags) :
          IsRuleFlag(f) /\ Norm(f.clause) \notin RetrievedNormIds

\* the clause id analyse resolves for item f of llm_out["flags"], after the
\* optional backfill
ResolvedId(f) ==
    LET raw_id == Strip(Or(Or(Get(f, "clause"), Get(f, "id")), StrV(sEmpty)).s)
        found == _lookup_clause_meta(raw_id, hits, POLICY)
    IN  IF Truthy(found) THEN BackfillId(raw_id, found.d, hits) ELSE raw_id

\* an item Flag(**f) or the meta merge rejects
Malformed(f) ==
    \/ Truthy(Get(f, "meta")) /\ Get(f, "meta").t # "dict"
    \/ Get(f, "mitigation").t \notin {"none", "str"}
    \/ Get(f, "evidence").t \notin {"none", "str"}

Validated == pc \in {"rules", "merged", "done", "raised"}
KeptItems == {model_flags[i].idx : i \in 1..Len(model_flags)}

\* C2: a generative flag is kept only if its resolved clause id, trimmed and
\* lower-cased, is the id of a retrieved clause; one that is not is discarded,
\* and discarding it removes no other flag: every well-formed item whose
\* resolved id was retrieved is kept, in the model's order, and the returned
\* list carries exactly the kept ones.
C2_AllowListOnGenerativeFlags ==
    Validated =>
        /\ \A i \in KeptItems : Norm(ResolvedId(llm_out[i])) \in RetrievedNormIds
        /\ \A i \in 1..Len(llm_out) :
              (Norm(ResolvedId(llm_out[i])) \in RetrievedNormIds
               /\ ~Malformed(llm_out[i])) => i \in KeptItems
        /\ \A i, j \in 1..Len(model_flags) :
              i < j => model_flags[i].idx < model_flags[j].idx
        /\ Returned =>
              SelectSeq(response.flags, IsGenerative) = model_flags

\* two items came back, one outside the retrieved set was discarded and the
\* other one was kept
C2_Witness ==
    /\ Validated
    /\ Len(llm_out) = 2
    /\ Len(model_flags) = 1
    /\ \E i \in 1..2 : /\ Norm(ResolvedId(llm_out[i])) \notin RetrievedNormIds
                       /\ ~Malformed(llm_out[i])

\* C5: whatever the shape of a rule, no exception leaves the rule loop: the
\* request is never ended by an error raised while a rule was handled.
C5_NoErrorEscapesRuleLoop == response.status # "error"

InferenceFailed == calls # <<>> /\ calls[Len(calls)].outcome = "error"

\* C6: when the inference call fails, on the first attempt or on the retry,
\* the generative flag set is empty, no error is propagated, and the request
\* ends with the rule flags, or the synthesized flags when no rule fired.
C6_InferenceFailureDegrades ==
    InferenceFailed =>
        /\ llm_out = <<>>
        /\ response.status # "error"
        /\ Validated => model_flags = <<>>
        /\ pc = "done" =>
              response.flags = IF legacy_flags # <<>> THEN legacy_flags
                               ELSE _synthesise_green_flags(payload, hits)

\* C8: at most two inference calls per generate_flags; a second one exactly
\* when the first returned with zero flags; the second one carries the
\* modified system and user prompts and its outcome is what is returned, even
\* when it is empty again.
C8_AtMostTwoCalls ==
    /\ Len(calls) <= 2
    /\ Len(calls) = 2 =>
          /\ calls[1].outcome = "ok" /\ calls[1].n = 0
          /\ calls[1].args.system = sysBase /\ calls[1].args.user = userBase
          /\ calls[2].args.system # sysBase
          /\ StartsWith(calls[2].args.system, sysBase)
          /\ calls[2].args.user # userBase
          /\ StartsWith(calls[2].args.user, userBase)
          /\ pc # "generate"
          /\ Len(llm_out) = calls[2].n
    /\ (Len(calls) = 1 /\ pc # "generate") =>
          ~(calls[1].outcome = "ok" /\ calls[1].n = 0)

\* the retry came back empty as well and generation ended there
C8_Witness ==
    /\ Len(calls) = 2
    /\ calls[2].outcome = "ok" /\ calls[2].n = 0
    /\ pc = "validate"

FiredRules == {legacy_flags[i].idx : i \in 1..Len(legacy_flags)}

-----------------------------------------------------------------------------
(* _synthesise_green_flags applied to one fact record and one hit set *)

\* the facts that pass every positive check, and each of them with one fact
\* withdrawn
SynthFactKeys == {"retention_defined", "lineage_doc_present", "privacy_techniques",
                  "explainability_tooling", "explainability_channels",
                  "interpretability_rating", "penetration_tested",
                  "pre_deployment_testing", "domain_threshold_met",
                  "validation_score", "robustness_above_baseline",
                  "accountable_owner", "escalation_route", "data_quality_checks",
                  "outputs_exposed_to_end_users",
                  "output_label_includes_probabilistic"}
SynthFacts ==
    {factsAllGood, factsPlain, factsRobust}
    \cup {(k :> NoneV) @@ factsAllGood : k \in SynthFactKeys}
    \cup {("validation_score" :> NanV) @@ factsAllGood,
          ("interpretability_rating" :> StrV(<<"2">>)) @@ factsAllGood}

HitsOf(rows) == [i \in 1..Len(rows) |-> SearchHit(rows[i], 5)]
Without(q, i) == SubSeq(q, 1, i - 1) \o SubSeq(q, i + 1, Len(q))
Respelt(c) == Clause(<<" ">> \o Lower(c.id), c.label, c.text, c.framework)

\* hit sets: every target clause retrieved, all but one, none, and the targets
\* under ids spelt in lower case
SynthHitSets ==
    {HitsOf(CorpusSynth), HitsOf(CorpusSmall), <<>>,
     HitsOf([i \in 1..Len(CorpusSynth) |-> Respelt(CorpusSynth[i])])}
    \cup {HitsOf(Without(CorpusSynth, i)) : i \in 1..Len(SynthIds)}

SynthInit ==
    /\ payload \in SynthFacts
    /\ hits \in SynthHitSets
    /\ pc = "synth"
    /\ RULES = <<>>
    /\ USE_LLM = TRUE
    /\ sim_profile = "flat"
    /\ gen = FirstArgs
    /\ calls = <<>>
    /\ llm_out = <<>>
    /\ model_flags = <<>>
    /\ rule_i = 1
    /\ legacy_flags = <<>>
    /\ all_flags = <<>>
    /\ response = NoResponse
    /\ CorpusIdle
    /\ RuleIdle
    /\ ReloadIdle
    /\ AuxIdle

\* the call of main.py 837
SynthCall ==
    /\ pc = "synth"
    /\ all_flags' = _synthesise_green_flags(payload, hits)
    /\ pc' = "synthesised"
    /\ UNCHANGED <<RULES, USE_LLM, payload, sim_profile, hits, gen, calls, llm_out,
                   model_flags, rule_i, legacy_flags, response>>

SynthNext == SynthCall /\ UNCHANGED <<ruleVars, corpusVars, reloadVars, auxVars>>

SpecSynth == SynthInit /\ [][SynthNext]_vars

SynthFlagOf(i) == \E f \in Range(all_flags) : f.idx = i
NotRetrieved(cid) == Norm(cid) \notin RetrievedNormIds

\* C9 as stated: synthesis returns at most 8 flags, all green, each with a
\* clause equal to the id of a retrieved clause, and none for a check whose
\* target clause was not retrieved.
C9_SynthesisWithinRetrievedSet ==
    pc = "synthesised" =>
        /\ Len(all_flags) <= 8
        /\ \A f \in Range(all_flags) :
              f.severity = sGreen /\ f.clause \in RetrievedIds
        /\ \A i \in 1..Len(PositiveChecks(payload)) :
              NotRetrieved(PositiveChecks(payload)[i].cid) => ~SynthFlagOf(i)

\* C9 as amended: synthesis returns at most 8 flags, all green, each with a
\* clause that is, after trimming and lower-casing both, the id of a retrieved
\* clause, and none for a check whose target clause was not retrieved.
C9_SynthesisWithinRetrievedSetUpToCase ==
    pc = "synthesised" =>
        /\ Len(all_flags) <= 8
        /\ \A f \in Range(all_flags) :
              f.severity = sGreen /\ Norm(f.clause) \in RetrievedNormIds
        /\ \A i \in 1..Len(PositiveChecks(payload)) :
              NotRetrieved(PositiveChecks(payload)[i].cid) => ~SynthFlagOf(i)

\* nine checks pass on nine retrieved targets and eight flags come back
C9_Witness ==
    /\ pc = "synthesised"
    /\ \A i \in 1..Len(PositiveChecks(payload)) :
          PositiveChecks(payload)[i].ok /\ ~NotRetrieved(PositiveChecks(payload)[i].cid)
    /\ Len(PositiveChecks(payload)) = 9
    /\ Len(all_flags) = 8

-----------------------------------------------------------------------------
(* load_policy_corpus running next to a request on another worker thread *)

\* what policy_corpus.json may hold when it is read: no rows, or one of these
ReloadSamples == {<<>>, <<clauseC1>>, CorpusSmall, CorpusSynth}

\* TfidfVectorizer(stop_words="english") before it is fitted (main.py 409)
UnfittedVectorizer == [made |-> TRUE, fitted |-> FALSE, on |-> <<>>]

ReloadInit ==
    /\ \E rows \in ReloadSamples :
          /\ POLICY = LoadedPolicy(rows)
          /\ POLICY_VERSION = LoadedVersion(rows)
          /\ vectorizer = LoadedVectorizer(rows)
          /\ matrix = LoadedMatrix(rows)
    /\ ReloadIdle
    /\ RuleIdle
    /\ RequestIdle
    /\ AuxIdle

\* main.py 748 and 374-399: admin_reload enters load_policy_corpus, which reads
\* and parses the file
LoadStart ==
    /\ ld_pc = "idle"
    /\ \E rows \in ReloadSamples :
          /\ ld_rows' = rows
          /\ ld_pc' = IF rows = <<>> THEN "clear" ELSE "policy"
    /\ UNCHANGED <<corpusVars, rd_pc, rd_kind, rd_seen>>

\* main.py 377, 384, 391, 397: POLICY, POLICY_VERSION = [], ""
LoadClearPolicy ==
    /\ ld_pc = "clear"
    /\ POLICY' = <<>>
    /\ POLICY_VERSION' = <<>>
    /\ ld_pc' = "clear_index"
    /\ UNCHANGED <<vectorizer, matrix, ld_rows, rd_pc, rd_kind, rd_seen>>

\* main.py 378, 385, 392, 398: _vectorizer, _matrix = None, None
LoadClearIndex ==
    /\ ld_pc = "clear_index"
    /\ vectorizer' = LoadedVectorizer(<<>>)
    /\ matrix' = LoadedMatrix(<<>>)
    /\ ld_pc' = "idle"
    /\ UNCHANGED <<POLICY, POLICY_VERSION, ld_rows, rd_pc, rd_kind, rd_seen>>

\* main.py 401-404: POLICY = [PolicyClause(**row) for row in rows]
LoadStorePolicy ==
    /\ ld_pc = "policy"
    /\ POLICY' = ld_rows
    /\ ld_pc' = "version"
    /\ UNCHANGED <<POLICY_VERSION, vectorizer, matrix, ld_rows, rd_pc, rd_kind, rd_seen>>

\* main.py 406: POLICY_VERSION = sha256(raw)[:12]
LoadStoreVersion ==
    /\ ld_pc = "version"
    /\ POLICY_VERSION' = Digest(ld_rows)
    /\ ld_pc' = "vectorizer"
    /\ UNCHANGED <<POLICY, vectorizer, matrix, ld_rows, rd_pc, rd_kind, rd_seen>>

\* main.py 408-409: _vectorizer = TfidfVectorizer(stop_words="english")
LoadStoreVectorizer ==
    /\ ld_pc = "vectorizer"
    /\ vectorizer' = UnfittedVectorizer
    /\ ld_pc' = "fit"
    /\ UNCHANGED <<POLICY, POLICY_VERSION, matrix, ld_rows, rd_pc, rd_kind, rd_seen>>

\* main.py 410, the call: _vectorizer.fit_transform(texts) fits the object the
\* global already names
LoadFit ==
    /\ ld_pc = "fit"
    /\ vectorizer' = [made |-> TRUE, fitted |-> TRUE, on |-> Digest(ld_rows)]
    /\ ld_pc' = "matrix"
    /\ UNCHANGED <<POLICY, POLICY_VERSION, matrix, ld_rows, rd_pc, rd_kind, rd_seen>>

\* main.py 410, the store: _matrix = <the fitted rows>
LoadStoreMatrix ==
    /\ ld_pc = "matrix"
    /\ matrix' = [built |-> TRUE, rows |-> Digest(ld_rows)]
    /\ ld_pc' = "idle"
    /\ UNCHANGED <<POLICY, POLICY_VERSION, vectorizer, ld_rows, rd_pc, rd_kind, rd_seen>>

Saw(v) == [read |-> TRUE, v |-> v]

\* a worker thread takes a request: /search (main.py 752-754), /analyse
\* (757-845) or /clauses (741-743)
ReadStart ==
    /\ rd_pc = "idle"
    /\ \E kind \in {"search", "analyse", "clauses"} :
          /\ rd_kind' = kind
          /\ rd_pc' = IF kind = "clauses" THEN "list" ELSE "guard"
    /\ rd_seen' = NothingRead
    /\ UNCHANGED <<corpusVars, ld_pc, ld_rows>>

\* main.py 743: return POLICY
ListClauses ==
    /\ rd_pc = "list"
    /\ rd_seen' = [rd_seen EXCEPT !.policy = Saw(POLICY)]
    /\ rd_pc' = "seen"
    /\ UNCHANGED <<corpusVars, ld_pc, ld_rows, rd_kind>>

\* what follows retrieve in the request
AfterRetrieve == IF rd_kind = "analyse" THEN "version" ELSE "seen"

\* main.py 418-419: if not POLICY or _vectorizer is None or _matrix is None
RetrieveGuard ==
    /\ rd_pc = "guard"
    /\ rd_pc' = IF POLICY = <<>> \/ ~vectorizer.made \/ ~matrix.built
                THEN AfterRetrieve ELSE "transform"
    /\ UNCHANGED <<corpusVars, ld_pc, ld_rows, rd_kind, rd_seen>>

\* main.py 421: vec = _vectorizer.transform([q]), NotFittedError on a
\* vectorizer that is not fitted
RetrieveTransform ==
    /\ rd_pc = "transform"
    /\ rd_seen' = [rd_seen EXCEPT !.vec = Saw(vectorizer),
                                  !.raised = ~vectorizer.fitted]
    /\ rd_pc' = IF vectorizer.fitted THEN "sims" ELSE "seen"
    /\ UNCHANGED <<corpusVars, ld_pc, ld_rows, rd_kind>>

\* main.py 422: sims = cosine_similarity(vec, _matrix)[0]
RetrieveSims ==
    /\ rd_pc = "sims"
    /\ rd_seen' = [rd_seen EXCEPT !.mat = Saw(matrix)]
    /\ rd_pc' = "rows"
    /\ UNCHANGED <<corpusVars, ld_pc, ld_rows, rd_kind>>

\* main.py 424-443: the clauses read from POLICY by the index of each score,
\* IndexError when there are more scores than clauses
RetrieveRows ==
    /\ rd_pc = "rows"
    /\ LET sims == Sims("flat", Len(rd_seen.mat.v.rows))
           raises == Len(sims) > Len(POLICY)
       IN  /\ rd_seen' = [rd_seen EXCEPT !.policy = Saw(POLICY), !.raised = raises]
           /\ rd_pc' = IF raises THEN "seen" ELSE AfterRetrieve
    /\ UNCHANGED <<corpusVars, ld_pc, ld_rows, rd_kind>>

\* main.py 845: corpus_version=POLICY_VERSION
AnalyseVersion ==
    /\ rd_pc = "version"
    /\ rd_seen' = [rd_seen EXCEPT !.version = Saw(POLICY_VERSION)]
    /\ rd_pc' = "seen"
    /\ UNCHANGED <<corpusVars, ld_pc, ld_rows, rd_kind>>

\* the request is answered and the worker is free again
ReadEnd ==
    /\ rd_pc = "seen"
    /\ rd_pc' = "idle"
    /\ rd_kind' = "none"
    /\ rd_seen' = NothingRead
    /\ UNCHANGED <<corpusVars, ld_pc, ld_rows>>

ReloadNext ==
    \/ LoadStart /\ UNCHANGED <<ruleVars, reqVars, auxVars>>
    \/ LoadClearPolicy /\ UNCHANGED <<ruleVars, reqVars, auxVars>>
    \/ LoadClearIndex /\ UNCHANGED <<ruleVars, reqVars, auxVars>>
    \/ LoadStorePolicy /\ UNCHANGED <<ruleVars, reqVars, auxVars>>
    \/ LoadStoreVersion /\ UNCHANGED <<ruleVars, reqVars, auxVars>>
    \/ LoadStoreVectorizer /\ UNCHANGED <<ruleVars, reqVars, auxVars>>
    \/ LoadFit /\ UNCHANGED <<ruleVars, reqVars, auxVars>>
    \/ LoadStoreMatrix /\ UNCHANGED <<ruleVars, reqVars, auxVars>>
    \/ ReadStart /\ UNCHANGED <<ruleVars, reqVars, auxVars>>
    \/ ListClauses /\ UNCHANGED <<ruleVars, reqVars, auxVars>>
    \/ RetrieveGuard /\ UNCHANGED <<ruleVars, reqVars, auxVars>>
    \/ RetrieveTransform /\ UNCHANGED <<ruleVars, reqVars, auxVars>>
    \/ RetrieveSims /\ UNCHANGED <<ruleVars, reqVars, auxVars>>
    \/ RetrieveRows /\ UNCHANGED <<ruleVars, reqVars, auxVars>>
    \/ AnalyseVersion /\ UNCHANGED <<ruleVars, reqVars, auxVars>>
    \/ ReadEnd /\ UNCHANGED <<ruleVars, reqVars, auxVars>>

SpecReload == ReloadInit /\ [][ReloadNext]_vars

\* what a request has read is what load_policy_corpus leaves behind for `rows`
SeenWithin(rows) ==
    /\ rd_seen.policy.read => rd_seen.policy.v = LoadedPolicy(rows)
    /\ rd_seen.version.read => rd_seen.version.v = LoadedVersion(rows)
    /\ rd_seen.vec.read => rd_seen.vec.v = LoadedVectorizer(rows)
    /\ rd_seen.mat.read => rd_seen.mat.v = LoadedMatrix(rows)

\* C7: under any interleaving of a reload with a retrieve, analyse or
\* list_clauses call, the clause list, version, vectorizer and matrix a
\* request reads all belong to one loaded corpus, the old one or the new one.
C7_ReadersSeeOneSnapshot ==
    rd_pc = "seen" => \E rows \in ReloadSamples : SeenWithin(rows)

-----------------------------------------------------------------------------
(* The same analyse request served twice, another request served meanwhile *)

\* what the inference service answers to one call: it fails, or its text
\* parses to one of these
Failure == [t |-> "fail"]
TapeAnswers ==
    {NoneV,
     DictV("flags" :> ListV(<<DictV(itemGood), DictV(itemHallucinated)>>)),
     DictV("flags" :> ListV(<<DictV(itemNoClause), DictV(itemOtherCase)>>)),
     ListV(<<DictV(itemIdOnly)>>),
     ListV(<<DictV(itemGood), DictV(itemBadReason)>>)}

\* the service's answers to the first call and to the retry, the same for
\* both runs of the request
Tapes ==
    {<<a, Failure>> : a \in (TapeAnswers \ {NoneV}) \cup {Failure}}
    \cup {<<NoneV, b>> : b \in TapeAnswers \cup {Failure}}

\* the rule sets and corpora the repeated request is served under
TwiceRuleSets == {<<ruleTitle>>, <<ruleSpecial, ruleNoClause>>, <<StrV(sT), ruleTitle>>}
TwiceCorpora == {CorpusSmall, CorpusSynth}

\* a request as analyse finds it on entry (main.py 757-780)
RequestStart ==
    /\ pc = "retrieve"
    /\ hits = <<>>
    /\ gen = FirstArgs
    /\ calls = <<>>
    /\ llm_out = <<>>
    /\ model_flags = <<>>
    /\ rule_i = 1
    /\ legacy_flags = <<>>
    /\ all_flags = <<>>
    /\ response = NoResponse

TwiceInit ==
    /\ \E rows \in TwiceCorpora :
          /\ POLICY = LoadedPolicy(rows)
          /\ POLICY_VERSION = LoadedVersion(rows)
          /\ vectorizer = LoadedVectorizer(rows)
          /\ matrix = LoadedMatrix(rows)
    /\ payload \in {factsUntitled, factsRobust}
    /\ RULES \in TwiceRuleSets
    /\ USE_LLM = TRUE
    /\ sim_profile \in {"flat", "two"}
    /\ RequestStart
    /\ tape \in Tapes
    /\ run = 1
    /\ first_run = NoResponse
    /\ \E p \in {factsPlain, factsAllGood} :
          other = [whose |-> "B", mid |-> FALSE, payload |-> p, sim_profile |-> "flat",
                   pc |-> "retrieve", hits |-> <<>>, gen |-> FirstArgs, calls |-> <<>>,
                   llm_out |-> <<>>, model_flags |-> <<>>, rule_i |-> 1,
                   legacy_flags |-> <<>>, all_flags |-> <<>>, response |-> NoResponse]
    /\ h_in = <<>>
    /\ h_out = <<>>
    /\ RuleIdle
    /\ ReloadIdle

\* the inference call of the request, answered from the tape
TapedCall ==
    /\ Len(calls) < Len(tape)
    /\ LET answer == tape[Len(calls) + 1]
       IN  IF answer = Failure THEN CallFails ELSE CallReturnsWith(answer)

\* the local variables of a request whose worker thread is not running
Parked(whose, mid) ==
    [whose |-> whose, mid |-> mid, payload |-> payload, sim_profile |-> sim_profile,
     pc |-> pc, hits |-> hits, gen |-> gen, calls |-> calls, llm_out |-> llm_out,
     model_flags |-> model_flags, rule_i |-> rule_i, legacy_flags |-> legacy_flags,
     all_flags |-> all_flags, response |-> response]

Over(at) == at \in {"done", "raised"}

\* the interpreter switches between the worker thread of the repeated request
\* ("A") and the worker thread of another analyse request ("B"); each thread
\* has its own locals, the module globals are shared
Switch ==
    /\ other.whose = "B" => ~Over(other.pc)
    /\ other' = Parked(IF other.whose = "B" THEN "A" ELSE "B",
                       other.mid \/ (other.whose = "B" /\ pc # "retrieve" /\ ~Over(pc)))
    /\ payload' = other.payload
    /\ sim_profile' = other.sim_profile
    /\ pc' = other.pc
    /\ hits' = other.hits
    /\ gen' = other.gen
    /\ calls' = other.calls
    /\ llm_out' = other.llm_out
    /\ model_flags' = other.model_flags
    /\ rule_i' = other.rule_i
    /\ legacy_flags' = other.legacy_flags
    /\ all_flags' = other.all_flags
    /\ response' = other.response
    /\ UNCHANGED <<RULES, USE_LLM, tape, run, first_run, h_in, h_out>>

\* the first run is over; the same request comes in again
Rerun ==
    /\ run = 1
    /\ other.whose = "B"
    /\ pc \in {"done", "raised"}
    /\ first_run' = response
    /\ run' = 2
    /\ pc' = "retrieve"
    /\ hits' = <<>>
    /\ gen' = FirstArgs
    /\ calls' = <<>>
    /\ llm_out' = <<>>
    /\ model_flags' = <<>>
    /\ rule_i' = 1
    /\ legacy_flags' = <<>>
    /\ all_flags' = <<>>
    /\ response' = NoResponse
    /\ UNCHANGED <<RULES, USE_LLM, payload, sim_profile, tape, other, h_in, h_out>>

TwiceNext ==
    \/ Retrieve /\ UNCHANGED <<ruleVars, corpusVars, reloadVars, auxVars>>
    \/ TapedCall /\ UNCHANGED <<ruleVars, corpusVars, reloadVars, auxVars>>
    \/ Validate /\ UNCHANGED <<ruleVars, corpusVars, reloadVars, auxVars>>
    \/ RuleStep /\ UNCHANGED <<ruleVars, corpusVars, reloadVars, auxVars>>
    \/ Merge /\ UNCHANGED <<ruleVars, corpusVars, reloadVars, auxVars>>
    \/ Synthesise /\ UNCHANGED <<ruleVars, corpusVars, reloadVars, auxVars>>
    \/ Return /\ UNCHANGED <<ruleVars, corpusVars, reloadVars, auxVars>>
    \/ Switch /\ UNCHANGED <<ruleVars, corpusVars, reloadVars>>
    \/ Rerun /\ UNCHANGED <<ruleVars, corpusVars, reloadVars>>

SpecTwice == TwiceInit /\ [][TwiceNext]_vars

-----------------------------------------------------------------------------
(* retrieve applied to one corpus, one query, one top_k and one allow-list *)

\* a corpus where one framework outnumbers and outscores the others, with the
\* framework spelt in both letter cases, left blank and left out
SkewClause(i, fw) == Clause(<<"s", Digits[i + 1]>>, <<"L", Digits[i + 1]>>, sT, fw)
CorpusSkew ==
    << SkewClause(1, StrV(sDSIT)), SkewClause(2, StrV(sEmpty)), SkewClause(3, NoneV),
       SkewClause(4, StrV(sICO)), SkewClause(5, StrV(Lower(sICO))),
       SkewClause(6, StrV(sICO)), SkewClause(7, StrV(sICO)),
       SkewClause(8, StrV(sICO)) >>

RetrieveCorpora == {<<>>, CorpusSmall, CorpusSkew}

\* the largest top_k a query asks for
MaxTopK == 9

\* SearchQuery.frameworks (schemas.py 100): none, or a list of names
AllowLists ==
    {<<>>, <<Lower(sICO)>>, <<sICO, Upper(sDSIT)>>, <<sUNK>>, <<sEmpty>>,
     <<sZZ>>, <<sEmpty, sICO>>}

RetrieveInit ==
    /\ \E rows \in RetrieveCorpora :
          /\ POLICY = LoadedPolicy(rows)
          /\ POLICY_VERSION = LoadedVersion(rows)
          /\ vectorizer = LoadedVectorizer(rows)
          /\ matrix = LoadedMatrix(rows)
    /\ sim_profile \in ScoreProfiles
    /\ h_in \in [top_k : 0..MaxTopK, frameworks : AllowLists]
    /\ h_out = <<>>
    /\ pc = "search"
    /\ RULES = <<>>
    /\ USE_LLM = TRUE
    /\ payload = EmptyDict
    /\ hits = <<>>
    /\ gen = FirstArgs
    /\ calls = <<>>
    /\ llm_out = <<>>
    /\ model_flags = <<>>
    /\ rule_i = 1
    /\ legacy_flags = <<>>
    /\ all_flags = <<>>
    /\ response = NoResponse
    /\ tape = <<>>
    /\ run = 0
    /\ first_run = NoResponse
    /\ other = NoResponse
    /\ RuleIdle
    /\ ReloadIdle

\* main.py 752-754: search(q)
SearchCall ==
    /\ pc = "search"
    /\ h_out' = retrieve(POLICY, vectorizer, matrix,
                         Sims(sim_profile, Len(matrix.rows)),
                         h_in.top_k, h_in.frameworks)
    /\ pc' = "searched"
    /\ UNCHANGED <<RULES, USE_LLM, payload, sim_profile, hits, gen, calls, llm_out,
                   model_flags, rule_i, legacy_flags, all_flags, response,
                   tape, run, first_run, other, h_in>>

RetrieveNext == SearchCall /\ UNCHANGED <<ruleVars, corpusVars, reloadVars>>

SpecRetrieve == RetrieveInit /\ [][RetrieveNext]_vars

\* the framework a clause names, in upper case (blank when it names none)
NamedFramework(c) == Upper(IF IsStr(c.framework) THEN c.framework.s ELSE sEmpty)

\* the allow-list of the query, in upper case
AllowedNames == {Upper(h_in.frameworks[i]) : i \in 1..Len(h_in.frameworks)}

\* a clause the allow-list admits: any clause when there is no list
Admitted(c) ==
    \/ h_in.frameworks = <<>>
    \/ IsStr(c.framework) /\ Upper(c.framework.s) \in AllowedNames
AdmittedRows == {i \in 1..Len(POLICY) : Admitted(POLICY[i])}
CandidateFrameworks == {NamedFramework(POLICY[i]) : i \in AdmittedRows}

\* C12: with top_k at least the number of frameworks that have a candidate
\* clause, the result holds at least one clause of every such framework,
\* however many higher-scoring clauses another framework has.
C12_NoFrameworkStarved ==
    (pc = "searched" /\ h_in.top_k >= Cardinality(CandidateFrameworks)) =>
        \A fw \in CandidateFrameworks :
            \E i \in 1..Len(h_out) : NamedFramework(h_out[i].clause) = fw

\* C20: retrieve returns exactly min(top_k, number of admitted clauses) hits,
\* no clause twice, and with an allow-list only clauses of listed frameworks.
C20_ExactlyTopKAdmitted ==
    pc = "searched" =>
        /\ Len(h_out) = Min(h_in.top_k, Cardinality(AdmittedRows))
        /\ \A i, j \in 1..Len(h_out) :
              i # j => h_out[i].clause.id # h_out[j].clause.id
        /\ h_in.frameworks # <<>> =>
              \A i \in 1..Len(h_out) : NamedFramework(h_out[i].clause) \in AllowedNames


\* ---------------------------------------------------------------------------
\* C13: every flag of a returned list has a non-empty reason, whether it came
\* from the model, from a fired rule or from the battery of positive checks
C13_EveryFlagHasAReason ==
    Returned => \A f \in Range(response.flags) : f.reason # sEmpty

\* the same, for each origin of a flag
C13_GenerativeFlagsHaveAReason ==
    Returned => \A f \in Range(response.flags) : IsGenerative(f) => f.reason # sEmpty
C13_RuleFlagsHaveAReason ==
    Returned => \A f \in Range(response.flags) : IsRuleFlag(f) => f.reason # sEmpty
C13_SynthesizedFlagsHaveAReason ==
    Returned => \A f \in Range(response.flags) : IsSynthesized(f) => f.reason # sEmpty


-----------------------------------------------------------------------------
(* One analyse request whose model item and whose rule carry a severity *)
(* of any kind                                                           *)

sReally == <<"R","e","a","l","l","y">>
sPadRed == <<" ","R","E","D"," ">>
sAmberU == <<"A","M","B","E","R">>
sXyz    == <<"x","y","z">>

\* severity values as JSON (the model) and YAML (rules.yaml) can hold them
SeverityValues ==
    { StrV(sRed), StrV(sPadRed), StrV(sReally), StrV(sAmberU), StrV(<<"a">>),
      StrV(sGreen), StrV(sXyz), StrV(sEmpty), StrV(sBlank), NoneV,
      NumV(5), NumV(0), TrueV, FalseV, NanV,
      ListV(<<StrV(sRed)>>), DictV("r" :> StrV(sRed)) }

\* an item of llm_out["flags"] and a rule of rules.yaml with that severity
SeverityItem(clause, v) ==
    DictV("clause" :> StrV(clause) @@ "severity" :> v @@ "reason" :> StrV(sBecause))
SeverityRule(v) ==
    DictV("id" :> StrV(sR1) @@ "trigger" :> DictV("title_missing" :> TrueV)
          @@ "clause" :> StrV(sZZ) @@ "severity" :> v
          @@ "reason" :> StrV(sTitleMissing))

\* a rule that declares a trigger only, and one whose reason is its own text
ruleBare == DictV("id" :> StrV(sR1) @@ "trigger" :> DictV("title_missing" :> TrueV))
ruleOwnReason == MkRule(sR1, "title_missing" :> TrueV, sC1, sAmber, sBecause)

SeverityInit ==
    /\ POLICY = LoadedPolicy(CorpusSmall)
    /\ POLICY_VERSION = LoadedVersion(CorpusSmall)
    /\ vectorizer = LoadedVectorizer(CorpusSmall)
    /\ matrix = LoadedMatrix(CorpusSmall)
    /\ payload \in {factsUntitled, factsRobust}
    /\ \E v \in SeverityValues :
          RULES \in {<<SeverityRule(v)>>, <<ruleBare>>, <<ruleOwnReason>>}
    /\ USE_LLM = TRUE
    /\ sim_profile = "flat"
    /\ RequestStart
    /\ \E v \in SeverityValues, clause \in {sC1, sZZ} :
          tape \in {<<ListV(<<SeverityItem(clause, v)>>)>>,
                    <<ListV(<<DictV("clause" :> StrV(clause)
                                    @@ "reason" :> StrV(sBecause))>>)>>}
    /\ run = 1
    /\ first_run = NoResponse
    /\ other = NoResponse
    /\ h_in = <<>>
    /\ h_out = <<>>
    /\ RuleIdle
    /\ ReloadIdle

SeverityNext ==
    \/ Retrieve /\ UNCHANGED <<ruleVars, corpusVars, reloadVars, auxVars>>
    \/ TapedCall /\ UNCHANGED <<ruleVars, corpusVars, reloadVars, auxVars>>
    \/ Validate /\ UNCHANGED <<ruleVars, corpusVars, reloadVars, auxVars>>
    \/ RuleStep /\ UNCHANGED <<ruleVars, corpusVars, reloadVars, auxVars>>
    \/ Merge /\ UNCHANGED <<ruleVars, corpusVars, reloadVars, auxVars>>
    \/ Synthesise /\ UNCHANGED <<ruleVars, corpusVars, reloadVars, auxVars>>
    \/ Return /\ UNCHANGED <<ruleVars, corpusVars, reloadVars, auxVars>>

SpecSeverity == SeverityInit /\ [][SeverityNext]_vars

\* the severity the item of the model and the rule were given (None: missing)
GivenToModel == Get(tape[1].l[1].d, "severity")
GivenToRule == Get(RULES[1].d, "severity")
ModelItemInScope == Get(tape[1].l[1].d, "clause").s = sC1

\* red for a string that starts with r after trimming and lower-casing,
\* amber for one that starts with a, green for anything else
ByFirstLetter(v) ==
    LET t == IF IsStr(v) THEN Norm(v.s) ELSE sEmpty
    IN  IF t # <<>> /\ t[1] = "r" THEN sRed
        ELSE IF t # <<>> /\ t[1] = "a" THEN sAmberL ELSE sGreen

\* C14: the request never fails on a severity; the item of the model (when its
\* clause was retrieved) and the fired rule each give exactly one flag, whose
\* severity is red, amber or green by the first letter of the given value
C14_SeverityByFirstLetterNeverFails ==
    /\ pc # "raised"
    /\ Returned =>
          /\ \A f \in Range(response.flags) : f.severity \in {sRed, sAmberL, sGreen}
          /\ ModelItemInScope =>
                /\ Cardinality({i \in 1..Len(response.flags) :
                                   IsGenerative(response.flags[i])}) = 1
                /\ \A f \in Range(response.flags) :
                      IsGenerative(f) => f.severity = ByFirstLetter(GivenToModel)
          /\ payload = factsUntitled =>
                /\ Cardinality({i \in 1..Len(response.flags) :
                                   IsRuleFlag(response.flags[i])}) = 1
                /\ \A f \in Range(response.flags) :
                      IsRuleFlag(f) => f.severity = ByFirstLetter(GivenToRule)

\* a list from the model came out green and a padded upper-case RED of a rule
\* came out red, in one returned result
C14_Witness ==
    /\ Returned
    /\ GivenToModel = ListV(<<StrV(sRed)>>)
    /\ GivenToRule = StrV(sPadRed)
    /\ \E f \in Range(response.flags) : IsGenerative(f) /\ f.severity = sGreen
    /\ \E f \in Range(response.flags) : IsRuleFlag(f) /\ f.severity = sRed


-----------------------------------------------------------------------------
(* load_policy_corpus (main.py 371-412) run at import and again on reload, *)
(* each time on whatever policy_corpus.json then holds                     *)

\* policy_corpus.json: absent, undecodable bytes, blank text, text that is no
\* JSON, or text that parses to the value v
NoFile       == [k |-> "missing", v |-> NoneV]
BadBytesFile == [k |-> "undecodable", v |-> NoneV]
BlankFile    == [k |-> "blank", v |-> NoneV]
NotJsonFile  == [k |-> "notjson", v |-> NoneV]
JsonFile(v)  == [k |-> "json", v |-> v]

rowC1 == DictV("id" :> StrV(sC1) @@ "label" :> StrV(sL1)
               @@ "text" :> StrV(<<"t","e","x","t">>) @@ "framework" :> StrV(sICO))
rowC2 == DictV("id" :> StrV(<<"c","2">>) @@ "label" :> StrV(<<"L","2">>)
               @@ "text" :> StrV(sBecause) @@ "framework" :> StrV(sDSIT))
rowUnclassified == DictV("id" :> StrV(<<"c","3">>) @@ "label" :> StrV(<<"L","3">>)
                         @@ "text" :> StrV(sT))
rowNoText == DictV("id" :> StrV(<<"c","4">>) @@ "label" :> StrV(<<"L","4">>))

FileSources ==
    { NoFile, BadBytesFile, BlankFile, NotJsonFile,
      JsonFile(NoneV), JsonFile(DictV("clauses" :> ListV(<<rowC1>>))),
      JsonFile(ListV(<<>>)),
      JsonFile(ListV(<<rowC1>>)),
      JsonFile(ListV(<<rowC1, rowC2, rowUnclassified>>)),
      JsonFile(ListV(<<rowC2, rowC1>>)),
      JsonFile(ListV(<<rowC1, rowNoText>>)),
      JsonFile(ListV(<<StrV(sT)>>)) }

\* PolicyClause(**row) (schemas.py 87-95) accepts a mapping with string id,
\* label and text
ValidRow(row) ==
    /\ row.t = "dict"
    /\ \A k \in {"id", "label", "text"} : k \in DOMAIN row.d /\ IsStr(row.d[k])
    /\ Get(row.d, "framework").t \in {"none", "str"}

ParseRow(row) ==
    Clause(row.d["id"].s, row.d["label"].s, row.d["text"].s, Get(row.d, "framework"))

\* a faulty load: the parsed clauses are added to the ones already held
PolicyOfAppending(rows) == POLICY \o [i \in 1..Len(rows) |-> ParseRow(rows[i])]

\* main.py 401: [PolicyClause(**row) for row in rows]
PolicyOf(rows) == [i \in 1..Len(rows) |-> ParseRow(rows[i])]

\* main.py 374-399: the sources for which the globals are cleared
ClearsCorpus(src) ==
    \/ src.k \in {"missing", "blank", "notjson"}
    \/ src.k = "json" /\ (IF IsList(src.v) THEN src.v.l = <<>> ELSE TRUE)

\* main.py 381 (read_text on bytes that are no UTF-8) and 401 (a row that is
\* no clause record) raise outside the try block
LoadRaises(src) ==
    \/ src.k = "undecodable"
    \/ /\ src.k = "json"
       /\ IF IsList(src.v) THEN \E i \in 1..Len(src.v.l) : ~ValidRow(src.v.l[i])
          ELSE FALSE

\* the most loads in a row
MaxLoads == 3

LoadInit ==
    /\ POLICY = <<>>
    /\ POLICY_VERSION = <<>>
    /\ vectorizer = LoadedVectorizer(<<>>)
    /\ matrix = LoadedMatrix(<<>>)
    /\ AuxIdle
    /\ RequestIdle
    /\ RuleIdle
    /\ ReloadIdle

\* what the globals held after the load before this one, and from which file
Before == [src |-> h_in, policy |-> POLICY, version |-> POLICY_VERSION]

\* main.py 374-398: the file is missing, blank, no JSON, no list or empty
LoadCleared ==
    /\ run < MaxLoads
    /\ \E src \in FileSources :
          /\ ClearsCorpus(src)
          /\ h_in' = src
    /\ POLICY' = <<>>
    /\ POLICY_VERSION' = <<>>
    /\ vectorizer' = LoadedVectorizer(<<>>)
    /\ matrix' = LoadedMatrix(<<>>)
    /\ h_out' = [status |-> "returned", before |-> Before]
    /\ run' = run + 1
    /\ UNCHANGED <<tape, first_run, other>>

\* main.py 381, 401: the load raises; no global was assigned yet
LoadRaised ==
    /\ run < MaxLoads
    /\ \E src \in FileSources :
          /\ LoadRaises(src)
          /\ h_in' = src
    /\ h_out' = [status |-> "raised", before |-> Before]
    /\ run' = run + 1
    /\ UNCHANGED <<corpusVars, tape, first_run, other>>

\* main.py 401-410: the rows are stored, hashed and indexed
LoadStored ==
    /\ run < MaxLoads
    /\ \E src \in FileSources :
          /\ ~ClearsCorpus(src) /\ ~LoadRaises(src)
          /\ h_in' = src
          /\ POLICY' = PolicyOf(src.v.l)
          /\ POLICY_VERSION' = Digest(PolicyOf(src.v.l))
          /\ vectorizer' = LoadedVectorizer(PolicyOf(src.v.l))
          /\ matrix' = LoadedMatrix(PolicyOf(src.v.l))
    /\ h_out' = [status |-> "returned", before |-> Before]
    /\ run' = run + 1
    /\ UNCHANGED <<tape, first_run, other>>

LoadNext ==
    \/ LoadCleared /\ UNCHANGED <<ruleVars, reqVars, reloadVars>>
    \/ LoadRaised /\ UNCHANGED <<ruleVars, reqVars, reloadVars>>
    \/ LoadStored /\ UNCHANGED <<ruleVars, reqVars, reloadVars>>

SpecLoad == LoadInit /\ [][LoadNext]_vars

\* the file holds no clause collection: anything but a non-empty JSON list of
\* clause records
NoClauseCollection(src) ==
    ~(/\ src.k = "json"
      /\ IF IsList(src.v)
         THEN src.v.l # <<>> /\ \A i \in 1..Len(src.v.l) : ValidRow(src.v.l[i])
         ELSE FALSE)

RetrievalDisabled ==
    /\ POLICY = <<>>
    /\ POLICY_VERSION = <<>>
    /\ ~vectorizer.made
    /\ ~matrix.built

\* C15: a load from a file that is missing, empty or holds no clause collection
\* returns without raising and leaves an empty corpus, an empty version and no
\* index
C15_BadSourceDisablesRetrieval ==
    (run >= 1 /\ NoClauseCollection(h_in)) =>
        h_out.status = "returned" /\ RetrievalDisabled

\* C18: after a load of snapshot S, a second load of the same S leaves the
\* version, the number of clauses and the clauses as the first load left them
C18_ReloadIsAFixedPoint ==
    (run >= 2 /\ h_in = h_out.before.src) =>
        /\ POLICY_VERSION = h_out.before.version
        /\ Len(POLICY) = Len(h_out.before.policy)
        /\ POLICY = h_out.before.policy

\* three clauses were loaded over another corpus and then loaded again
C18_Witness ==
    /\ run = 3
    /\ h_in = JsonFile(ListV(<<rowC1, rowC2, rowUnclassified>>))
    /\ h_out.status = "returned"
    /\ h_out.before.src = h_in
    /\ Len(POLICY) = 3
    /\ POLICY_VERSION = h_out.before.version
    /\ POLICY_VERSION # <<>>


\* ---------------------------------------------------------------------------
\* C16: a returned flag list never holds two flags that are identical in
\* clause, severity and reason
C16_NoTwoFlagsAlike ==
    Returned =>
        \A i, j \in 1..Len(response.flags) :
            i # j => \/ response.flags[i].clause # response.flags[j].clause
                     \/ response.flags[i].severity # response.flags[j].severity
                     \/ response.flags[i].reason # response.flags[j].reason


\* ---------------------------------------------------------------------------
\* sub occurs in s
Contains(s, sub) ==
    \E i \in 1..(Len(s) - Len(sub) + 1) : SubSeq(s, i, i + Len(sub) - 1) = sub

DeclaresSeverity(rule) ==
    /\ IsStr(Get(rule.d, "severity"))
    /\ Norm(Get(rule.d, "severity").s) \in {sRed, sAmberL, sGreen}

\* C17: for a blank title and a rule set of one rule triggered by
\* title_missing, the result holds exactly one flag of the rule, with the
\* severity the rule declares and a reason that contains "title is missing",
\* whatever reason the rule declares
C17_TitleMissingFlag ==
    (Returned /\ payload = factsUntitled /\ Len(RULES) = 1) =>
        /\ Cardinality({i \in 1..Len(response.flags) :
                           IsRuleFlag(response.flags[i])}) = 1
        /\ \A f \in Range(response.flags) :
              IsRuleFlag(f) =>
                 /\ DeclaresSeverity(RULES[1]) =>
                        f.severity = Norm(Get(RULES[1].d, "severity").s)
                 /\ Contains(f.reason, sTitleMissing)

\* the same for the rules whose declared reason holds the text itself
C17_TitleMissingFlagOfDeclaredReason ==
    (/\ Returned /\ payload = factsUntitled /\ Len(RULES) = 1
     /\ Contains(PyStr(Get(RULES[1].d, "reason")), sTitleMissing)) =>
        /\ Cardinality({i \in 1..Len(response.flags) :
                           IsRuleFlag(response.flags[i])}) = 1
        /\ \A f \in Range(response.flags) :
              IsRuleFlag(f) =>
                 /\ DeclaresSeverity(RULES[1]) =>
                        f.severity = Norm(Get(RULES[1].d, "severity").s)
                 /\ Contains(f.reason, sTitleMissing)


-----------------------------------------------------------------------------
(* A query against the index of main.py (retrieve) and against a PolicyStore *)
(* (policy_store.py), each built, empty or never built                       *)

\* a PolicyStore (policy_store.py 22-27): never loaded, loaded from an empty
\* list (fit_transform raised at line 46 on the empty vocabulary, after lines
\* 31 and 45 were run), or loaded from rows
StoreUnbuilt == [clauses |-> <<>>, made |-> FALSE, fitted |-> FALSE, built |-> FALSE]
StoreEmpty == [clauses |-> <<>>, made |-> TRUE, fitted |-> FALSE, built |-> FALSE]
StoreOf(rows) == [clauses |-> rows, made |-> TRUE, fitted |-> TRUE, built |-> TRUE]

Stores == {StoreUnbuilt, StoreEmpty, StoreOf(CorpusSmall)}

Queries == {sEmpty, sBlank, sT}

\* the most hits a query of this harness asks for
MaxK == 3

\* sims.argsort()[::-1] (policy_store.py 54): the row numbers by falling score,
\* rows of equal score in an order the sort does not promise
ArgsortDesc(sims) ==
    {p \in [1..Len(sims) -> 1..Len(sims)] :
        /\ \A i, j \in 1..Len(sims) : i # j => p[i] # p[j]
        /\ \A i, j \in 1..Len(sims) : i < j => sims[p[i]] >= sims[p[j]]}

\* policy_store.py 49-63: the results top_k can return, or "raise"
PolicyStore_top_k(store, query, k, frameworks, sims) ==
    IF Strip(query) = sEmpty THEN {<<>>}
    ELSE IF ~store.made \/ ~store.fitted \/ ~store.built THEN {"raise"}
    ELSE {LET seen == [i \in 1..Len(p) |-> store.clauses[p[i]]]
              kept == SelectSeq(seen, LAMBDA c :
                          frameworks = <<>>
                          \/ (IsStr(c.framework) /\ c.framework.s \in Range(frameworks)))
          IN  Take(kept, Max(1, k)) : p \in ArgsortDesc(sims)}

IndexInit ==
    /\ \E rows \in {<<>>, CorpusSmall} :
          /\ POLICY = LoadedPolicy(rows)
          /\ POLICY_VERSION = LoadedVersion(rows)
          /\ vectorizer = LoadedVectorizer(rows)
          /\ matrix = LoadedMatrix(rows)
    /\ sim_profile \in ScoreProfiles
    /\ \E impl \in {"main", "store"} :
          /\ h_in \in [impl : {impl}, query : Queries, top_k : 0..MaxK,
                       frameworks : {<<>>, <<sICO>>}, store : Stores]
          /\ pc = IF impl = "main" THEN "search" ELSE "store"
    /\ h_out = <<>>
    /\ RULES = <<>>
    /\ USE_LLM = TRUE
    /\ payload = EmptyDict
    /\ hits = <<>>
    /\ gen = FirstArgs
    /\ calls = <<>>
    /\ llm_out = <<>>
    /\ model_flags = <<>>
    /\ rule_i = 1
    /\ legacy_flags = <<>>
    /\ all_flags = <<>>
    /\ response = NoResponse
    /\ tape = <<>>
    /\ run = 0
    /\ first_run = NoResponse
    /\ other = NoResponse
    /\ RuleIdle
    /\ ReloadIdle

\* policy_store.py 49-63: store.top_k(query, k, frameworks)
StoreTopK ==
    /\ pc = "store"
    /\ \E r \in PolicyStore_top_k(h_in.store, h_in.query, h_in.top_k, h_in.frameworks,
                                  Sims(sim_profile, Len(h_in.store.clauses))) :
          IF r = "raise"
          THEN h_out' = <<>> /\ pc' = "raised"
          ELSE h_out' = r /\ pc' = "searched"
    /\ UNCHANGED <<RULES, USE_LLM, payload, sim_profile, hits, gen, calls, llm_out,
                   model_flags, rule_i, legacy_flags, all_flags, response,
                   tape, run, first_run, other, h_in>>

IndexNext ==
    \/ SearchCall /\ UNCHANGED <<ruleVars, corpusVars, reloadVars>>
    \/ StoreTopK /\ UNCHANGED <<ruleVars, corpusVars, reloadVars>>

SpecIndex == IndexInit /\ [][IndexNext]_vars

\* the index the query ran against is empty or was never built
NoIndex ==
    IF h_in.impl = "main"
    THEN POLICY = <<>> \/ ~vectorizer.made \/ ~matrix.built
    ELSE ~h_in.store.built

\* C19: a query against an empty or never built index returns an empty result
\* and does not raise, in main.retrieve and in PolicyStore.top_k
C19_NoIndexGivesNoHits ==
    (pc \in {"searched", "raised"} /\ NoIndex) => (pc = "searched" /\ h_out = <<>>)

\* the same for retrieve of main.py alone
C19_RetrieveWithoutIndexGivesNoHits ==
    (pc \in {"searched", "raised"} /\ h_in.impl = "main" /\ NoIndex) =>
        (pc = "searched" /\ h_out = <<>>)


\* ---------------------------------------------------------------------------
\* generation is over: no call was due (USE_LLM off), or the last call failed,
\* or it was answered and asks for no retry
GenerationOver ==
    \/ ~USE_LLM /\ calls = <<>>
    \/ /\ calls # <<>>
       /\ LET last == calls[Len(calls)]
          IN  \/ last.outcome = "error"
              \/ ~(last.args.retry_on_empty /\ last.n = 0)

RulesOver == rule_i > Len(RULES)

\* C21: the merged list exists only after generation (with its retry) and the
\* rule loop are over; the returned list is the synthesised battery exactly
\* when the merged list was empty, and the merged list otherwise, so it never
\* mixes synthesised flags with generative or rule flags
C21_SynthesisOnlyOnEmptyMerge ==
    /\ pc \in {"merged", "done"} => GenerationOver /\ RulesOver
    /\ pc = "done" =>
          LET merged == MergeFlags(model_flags, legacy_flags)
          IN  /\ merged = <<>> =>
                    response.flags = _synthesise_green_flags(payload, hits)
              /\ merged # <<>> => response.flags = merged
              /\ (\E f \in Range(response.flags) : IsSynthesized(f)) =>
                    /\ merged = <<>>
                    /\ \A f \in Range(response.flags) : IsSynthesized(f)

\* the model was asked twice and answered nothing that survived, two rules
\* were evaluated and none fired, and positive checks were returned
C21_Witness ==
    /\ pc = "done"
    /\ Len(calls) = 2
    /\ Len(RULES) = 2
    /\ model_flags = <<>> /\ legacy_flags = <<>>
    /\ response.flags # <<>>
    /\ \A f \in Range(response.flags) : IsSynthesized(f)

\* the merged list was not empty and was returned as it is
C21_WitnessNoSynthesis ==
    /\ pc = "done"
    /\ model_flags # <<>> /\ legacy_flags # <<>>
    /\ response.flags = model_flags \o legacy_flags


\* ---------------------------------------------------------------------------
\* the retrieval of the request read its vectorizer, its matrix and its
\* clauses from one snapshot
HitsFromOneSnapshot ==
    /\ rd_seen.vec.read /\ rd_seen.mat.read /\ rd_seen.policy.read
    /\ ~rd_seen.raised
    /\ rd_seen.vec.v = LoadedVectorizer(rd_seen.policy.v)
    /\ rd_seen.mat.v = LoadedMatrix(rd_seen.policy.v)

\* C22: the corpus_version an analyse request returns is the version of the
\* snapshot its hits were drawn from, also when a reload went by between its
\* retrieval and its return
C22_VersionOfTheHitsSnapshot ==
    (/\ rd_kind = "analyse" /\ rd_pc = "seen"
     /\ rd_seen.version.read /\ HitsFromOneSnapshot) =>
        rd_seen.version.v = LoadedVersion(rd_seen.policy.v)


\* ---------------------------------------------------------------------------
\* the item of llm_out["flags"] a generative flag was made from
ItemOf(f) == llm_out[f.idx]

\* the item names no clause: clause and id are both blank
NoReference(item) ==
    Strip(Or(Or(Get(item, "clause"), Get(item, "id")), StrV(sEmpty)).s) = sEmpty

\* C23: a generative flag that names no clause is given a clause id only by a
\* label match of its own; without one it is dropped by the allow-list, so no
\* returned flag comes from an item without a clause reference just because
\* something was retrieved
C23_NoReferenceNoAttribution ==
    Returned =>
        \A f \in Range(response.flags) :
            (IsGenerative(f) /\ NoReference(ItemOf(f))) =>
                Get(f.meta.d, "matched_by") = NoneV


\* ---------------------------------------------------------------------------
CategoricalKeys == {"model_type", "data_types", "retraining_cadence"}

\* the rule under evaluation has one categorical key as its whole trigger, with
\* a non-empty string or a non-empty list of strings as the expected value
CategoricalRule ==
    /\ er_rule.t = "dict"
    /\ Get(er_rule.d, "trigger").t = "dict"
    /\ \E k \in CategoricalKeys :
          /\ DOMAIN Get(er_rule.d, "trigger").d = {k}
          /\ LET e == Get(er_rule.d, "trigger").d[k]
             IN  \/ IsStr(e) /\ e.s # sEmpty
                 \/ IF IsList(e)
                    THEN e.l # <<>> /\ \A i \in 1..Len(e.l) : IsStr(e.l[i])
                    ELSE FALSE

CategoricalKey == CHOOSE k \in CategoricalKeys : k \in DOMAIN Get(er_rule.d, "trigger").d

\* the values expected and the values the facts hold, trimmed and in lower case
ExpectedValues ==
    LET e == Get(er_rule.d, "trigger").d[CategoricalKey]
    IN  IF IsStr(e) THEN {Norm(e.s)} ELSE {Norm(e.l[i].s) : i \in 1..Len(e.l)}
FactValues ==
    LET a == Get(er_payload, CategoricalKey)
    IN  CASE a.t = "str"  -> IF Strip(a.s) = sEmpty THEN {} ELSE {Norm(a.s)}
          [] a.t = "list" -> {Norm(a.l[i].s) : i \in 1..Len(a.l)}
          [] OTHER        -> {}

\* C24: a rule on model_type, data_types or retraining_cadence fires exactly
\* when the fact equals, or for lists meets, an expected value ignoring case;
\* an absent or empty fact never does
C24_CategoricalIgnoringCase ==
    (er_result # "pending" /\ CategoricalRule) =>
        /\ er_result \in {"true", "false"}
        /\ er_result = "true" <=> (ExpectedValues \cap FactValues # {})

\* the same for model_type alone
C24_ModelTypeIgnoringCase ==
    (er_result # "pending" /\ CategoricalRule /\ CategoricalKey = "model_type") =>
        /\ er_result \in {"true", "false"}
        /\ er_result = "true" <=> (ExpectedValues \cap FactValues # {})


\* ---------------------------------------------------------------------------
\* the place of a returned clause in the corpus
CorpusIndex(c) == CHOOSE i \in 1..Len(POLICY) : POLICY[i] = c

\* C25: of two returned clauses with the same score, the one earlier in the
\* corpus comes first, whatever their frameworks
C25_TiesInCorpusOrder ==
    pc = "searched" =>
        \A i, j \in 1..Len(h_out) :
            (i < j /\ h_out[i].score = h_out[j].score) =>
                CorpusIndex(h_out[i].clause) < CorpusIndex(h_out[j].clause)

\* the same for two clauses of one framework
C25_TiesInCorpusOrderWithinFramework ==
    pc = "searched" =>
        \A i, j \in 1..Len(h_out) :
            (/\ i < j /\ h_out[i].score = h_out[j].score
             /\ FrameworkKey(h_out[i].clause, sUNK) = FrameworkKey(h_out[j].clause, sUNK)) =>
                CorpusIndex(h_out[i].clause) < CorpusIndex(h_out[j].clause)


\* ---------------------------------------------------------------------------
\* the clause reference of the item is the id or the label of no corpus clause
NoCorpusMatch(item) ==
    LET ref == Norm(Or(Or(Get(item, "clause"), Get(item, "id")), StrV(sEmpty)).s)
    IN  \/ ref = sEmpty
        \/ \A i \in 1..Len(POLICY) : Norm(POLICY[i].id) # ref /\ Norm(POLICY[i].label) # ref

\* C26: a returned generative flag whose reference matched no corpus clause
\* carries the metadata of the hit that is best by 0.7 x score + 0.3 x
\* similarity to its reason, tagged reason-best-hit
C26_EnrichedFromBestHitForReason ==
    Returned =>
        \A f \in Range(response.flags) :
            (IsGenerative(f) /\ NoCorpusMatch(ItemOf(f)) /\ hits # <<>>) =>
                /\ Get(f.meta.d, "matched_by") = StrV(sBestHit)
                /\ Get(f.meta.d, "label")
                      = Get(_best_hit_for_reason(hits, f.reason).d, "label")

\* the same without the tag: the metadata is the one of the best hit
C26_LabelOfBestHitForReason ==
    Returned =>
        \A f \in Range(response.flags) :
            (IsGenerative(f) /\ NoCorpusMatch(ItemOf(f)) /\ hits # <<>>) =>
                Get(f.meta.d, "label")
                    = Get(_best_hit_for_reason(hits, f.reason).d, "label")


\* ---------------------------------------------------------------------------
\* the clauses retrieve may return for the allow-list, as corpus positions
Candidates ==
    {i \in 1..Len(POLICY) :
        \/ h_in.frameworks = <<>>
        \/ /\ FrameworkKey(POLICY[i], sEmpty) \in AllowedNames
           /\ FrameworkKey(POLICY[i], sUNK) \in AllowedNames}

ScoreOf(i) == Sims(sim_profile, Len(POLICY))[i]

\* the candidate with the highest score, the earliest in the corpus among ties
TopCandidate ==
    CHOOSE i \in Candidates :
        \A j \in Candidates :
            ScoreOf(i) > ScoreOf(j) \/ (ScoreOf(i) = ScoreOf(j) /\ i <= j)

\* C27: for top_k >= 1 and at least one candidate, the result holds the
\* candidate with the highest score (the earliest in the corpus among ties)
C27_TopCandidateReturned ==
    (pc = "searched" /\ h_in.top_k >= 1 /\ Candidates # {}) =>
        \E i \in 1..Len(h_out) : h_out[i].clause = POLICY[TopCandidate]

\* the same when there are at least as many places as frameworks
C27_TopCandidateReturnedWhenRoomForAll ==
    (/\ pc = "searched" /\ Candidates # {}
     /\ h_in.top_k >= Cardinality({FrameworkKey(POLICY[i], sUNK) : i \in Candidates})) =>
        \E i \in 1..Len(h_out) : h_out[i].clause = POLICY[TopCandidate]


\* the same when one candidate scores above all the others
C27_StrictlyBestReturned ==
    (/\ pc = "searched" /\ h_in.top_k >= 1 /\ Candidates # {}
     /\ \A j \in Candidates : j # TopCandidate => ScoreOf(TopCandidate) > ScoreOf(j)) =>
        \E i \in 1..Len(h_out) : h_out[i].clause = POLICY[TopCandidate]

=========================================================================
